---- MODULE Spec2Model ----
(***************************************************************************)
(* Model of the planting calendar of the garden tracker                    *)
(* (src/src/components/calendar/PlantingCalendar.tsx): the derivation of   *)
(* calendar events from gardens, plants, planting schedules and garden     *)
(* plants, with the JavaScript Date and string operations it relies on.    *)
(*                                                                         *)
(* Time is counted in whole hours from 2024-01-01T00:00Z.  Month indices   *)
(* are 0-based as in JavaScript; the month written in a date string is     *)
(* 1-based.  A string that the code splits or scans is a sequence of       *)
(* one-character strings.                                                  *)
(***************************************************************************)
EXTENDS Integers, Sequences, FiniteSets, TLC

VARIABLES gardens, plants, schedules, gardenPlants, selectedGarden,
          currentDate, events, tz, phase, now, upcomingEvents, loadPc

(* The state of the gardens page (src/unnamed/part_002, lines 38-42; its   *)
(* gardens, gardenPlants and loading are named page... here), the backend  *)
(* rows it reads, and the invocations of its two loaders.                  *)
VARIABLES pageGardens, pageGardenPlants, pageLoading, selectedGardenForPlant,
          pageToasts, dbGardens, dbRows, gardenLoads, plantLoads

page == <<pageGardens, pageGardenPlants, pageLoading, selectedGardenForPlant,
          pageToasts, dbGardens, dbRows, gardenLoads, plantLoads>>

calendar == <<gardens, plants, schedules, gardenPlants, selectedGarden,
              currentDate, events, tz, phase, now, upcomingEvents, loadPc>>

(* The state of the settings page (src/unnamed/part_004, lines 354-370;   *)
(* its loading is named settingsLoading here), the position of its        *)
(* loadUserData and handleSave, the backend's user and profile, and the    *)
(* userProfiles.create and update calls issued so far.                     *)
VARIABLES user, profile, settingsLoading, saving, formData, loadUser, save,
          dbUser, dbProfile, creates, updates

settings == <<user, profile, settingsLoading, saving, formData, loadUser, save,
              dbUser, dbProfile, creates, updates>>

(* The state of the dashboard (src/unnamed/part_005, lines 34-37; its      *)
(* gardens, loading and user are named dash... here), the auth state of    *)
(* the backend client, the user of the closure of the subscribed listener, *)
(* whether the client still owes that listener the current state, the      *)
(* invocations of loadDashboardData in flight and the user id of the last  *)
(* one that passed line 40.                                                *)
VARIABLES authState, authChanges, dashUser, dashLoading, dashGardens,
          upcomingTasks, listener, replay, dashLoads, ranWith

dashboard == <<authState, authChanges, dashUser, dashLoading, dashGardens,
               upcomingTasks, listener, replay, dashLoads, ranWith>>

(* The state of the CreateGardenModal                                       *)
(* (src/src/components/gardens/CreateGardenModal.tsx, lines 29-37; its     *)
(* open, loading and formData are named cg... here), the position of its   *)
(* handleSubmit, the gardens.create calls it has issued, the calls of       *)
(* onGardenCreated and the titles of its toasts.                           *)
VARIABLES cgOpen, cgLoading, cgFormData, submit, gardenCreates, created, cgToasts

createModal == <<cgOpen, cgLoading, cgFormData, submit, gardenCreates, created, cgToasts>>

(* The AddPlantModal (src/src/components/plants/AddPlantModal.tsx): its    *)
(* props open and gardenId (apOpen, apGardenId), which instance of it is   *)
(* mounted, its state (lines 47-52; plants and loading are named ap...     *)
(* here), its loadPlants, the runs of addPlantToGarden in flight, the      *)
(* gardenPlants.create calls issued, the calls of onPlantAdded and the     *)
(* toasts of addPlantToGarden.                                             *)
VARIABLES apOpen, apGardenId, apInstance, apPlants, apLoading, searchTerm,
          selectedPlant, addingPlant, plantsLoad, adds, plantCreates,
          plantAdded, addToasts

addModal == <<apOpen, apGardenId, apInstance, apPlants, apLoading, searchTerm,
              selectedPlant, addingPlant, plantsLoad, adds, plantCreates,
              plantAdded, addToasts>>

(* the state of the components other than the calendar *)
others == <<page, settings, dashboard, createModal, addModal>>

besidesPage == <<calendar, settings, dashboard, createModal, addModal>>

besidesSettings == <<calendar, page, dashboard, createModal, addModal>>

besidesDashboard == <<calendar, page, settings, createModal, addModal>>

besidesCreateModal == <<calendar, page, settings, dashboard, addModal>>

besidesAddModal == <<calendar, page, settings, dashboard, createModal>>

(* what the calendar's effect and handlers leave alone: the position of    *)
(* its loadData and the other components                                   *)
elsewhere == <<loadPc, others>>

(* selectedGardenForPlant when it is null *)
NoGarden == [id |-> 0, zone |-> "null"]

(* the gardens page before its mount *)
PageUnmounted ==
  /\ pageGardens = <<>>
  /\ pageGardenPlants = 0
  /\ pageLoading = TRUE
  /\ selectedGardenForPlant = NoGarden
  /\ pageToasts = 0
  /\ dbGardens = 0
  /\ dbRows = <<>>
  /\ gardenLoads = <<>>
  /\ plantLoads = <<>>

NoUser == [id |-> "null", displayName |-> ""]

NoProfile == [id |-> "null", displayName |-> ""]

(* the settings page before its mount *)
SettingsUnmounted ==
  /\ user = NoUser
  /\ profile = NoProfile
  /\ settingsLoading = TRUE
  /\ saving = FALSE
  /\ formData = [displayName |-> ""]
  /\ loadUser = "me"
  /\ save = [pc |-> "idle", displayName |-> ""]
  /\ dbUser = NoUser
  /\ dbProfile = NoProfile
  /\ creates = 0
  /\ updates = 0

(* the dashboard before its mount *)
DashboardUnmounted ==
  /\ authState = [user |-> "null", isLoading |-> TRUE]
  /\ authChanges = 0
  /\ dashUser = "null"
  /\ dashLoading = TRUE
  /\ dashGardens = <<>>
  /\ upcomingTasks = <<>>
  /\ listener = "null"
  /\ replay = FALSE
  /\ dashLoads = <<>>
  /\ ranWith = "null"

(* setFormData({ name: '', location: '', growZone: '', ... }) *)
EmptyForm == [name |-> "", location |-> "", growZone |-> "", size |-> ""]

NoSubmit == [pc |-> "idle", data |-> EmptyForm]

(* the CreateGardenModal before its mount *)
CreateModalUnmounted ==
  /\ cgOpen = FALSE
  /\ cgLoading = FALSE
  /\ cgFormData = EmptyForm
  /\ submit = NoSubmit
  /\ gardenCreates = <<>>
  /\ created = 0
  /\ cgToasts = <<>>

(* selectedPlant when it is null *)
NoPlant == [id |-> "null", name |-> <<>>, type |-> <<>>]

(* the state of an AddPlantModal at its first render (lines 47-52) *)
AddModalFirstRender ==
  /\ apPlants = <<>>
  /\ apLoading = FALSE
  /\ searchTerm = <<>>
  /\ selectedPlant = NoPlant
  /\ addingPlant = FALSE

(* no AddPlantModal has been mounted *)
AddModalUnmounted ==
  /\ apOpen = FALSE
  /\ apGardenId = "null"
  /\ apInstance = 0
  /\ AddModalFirstRender
  /\ plantsLoad = "idle"
  /\ adds = <<>>
  /\ plantCreates = <<>>
  /\ plantAdded = 0
  /\ addToasts = [added |-> 0, failed |-> 0]

OthersUnmounted ==
  /\ PageUnmounted
  /\ SettingsUnmounted
  /\ DashboardUnmounted
  /\ CreateModalUnmounted
  /\ AddModalUnmounted

vars == <<gardens, plants, schedules, gardenPlants, selectedGarden,
          currentDate, events, tz, phase, now, upcomingEvents, elsewhere>>

inputs == <<gardens, plants, schedules, gardenPlants, currentDate, tz>>

(* the clock read by the last render of the upcoming events, and the list  *)
(* that render showed                                                      *)
shown == <<now, upcomingEvents>>

-----------------------------------------------------------------------------
(* Bounds of the model *)

MaxGardenPlants == 2

MaxSchedules == 2

-----------------------------------------------------------------------------
(* The proleptic Gregorian calendar, as ECMAScript's MakeDay / MakeTime    *)

Years == 2022..2027

IsLeap(y) == (y % 4 = 0) /\ ((y % 100 # 0) \/ (y % 400 = 0))

DaysInYear(y) == IF IsLeap(y) THEN 366 ELSE 365

DaysInMonth(y, m) ==
  IF m = 1 THEN (IF IsLeap(y) THEN 29 ELSE 28)
  ELSE IF m \in {3, 5, 8, 10} THEN 30 ELSE 31

RECURSIVE SumDaysInYears(_, _)
SumDaysInYears(from, to) ==
  IF from >= to THEN 0 ELSE DaysInYear(from) + SumDaysInYears(from + 1, to)

(* days from 2024-01-01 to the first of January of year y *)
DaysBeforeYear ==
  [y \in Years \cup {2028} |->
     IF y >= 2024 THEN SumDaysInYears(2024, y) ELSE 0 - SumDaysInYears(y, 2024)]

RECURSIVE SumDaysInMonths(_, _)
SumDaysInMonths(y, m) ==
  IF m = 0 THEN 0 ELSE DaysInMonth(y, m - 1) + SumDaysInMonths(y, m - 1)

(* days from the first of January to the first of month m, by leap year *)
DaysBeforeMonth ==
  [leap \in BOOLEAN |->
     [m \in 0..12 |-> SumDaysInMonths(IF leap THEN 2024 ELSE 2025, m)]]

(* MakeDay(year, month, date): the month is normalised into the year and   *)
(* the date is added linearly, so a date past the end of the month rolls   *)
(* over into the following months                                          *)
MakeDay(y, m, d) ==
  LET yy == y + (m \div 12)
      mm == m % 12
  IN  DaysBeforeYear[yy] + DaysBeforeMonth[IsLeap(yy)][mm] + d - 1

YearFromDay(n) ==
  CHOOSE y \in Years : DaysBeforeYear[y] <= n /\ n < DaysBeforeYear[y + 1]

MonthFromDay(y, n) ==
  LET r == n - DaysBeforeYear[y]
  IN  CHOOSE m \in 0..11 :
        DaysBeforeMonth[IsLeap(y)][m] <= r /\ r < DaysBeforeMonth[IsLeap(y)][m + 1]

(* year, month index and day of the month of every day number *)
DayFields ==
  [n \in DaysBeforeYear[2022]..(DaysBeforeYear[2028] - 1) |->
     LET y == YearFromDay(n)
         m == MonthFromDay(y, n)
     IN  [y |-> y, m |-> m,
          d |-> n - DaysBeforeYear[y] - DaysBeforeMonth[IsLeap(y)][m] + 1]]

(* the calendar fields of a count of hours *)
Fields(h) ==
  LET f == DayFields[h \div 24]
  IN  [y |-> f.y, m |-> f.m, d |-> f.d, h |-> h % 24]

-----------------------------------------------------------------------------
(* The local time zone of the browser: a standard offset from UTC and,     *)
(* when the zone observes daylight saving time, its rule: the clocks go    *)
(* forward on the first Sunday on or after day sd of month sm, at hour sh  *)
(* of local standard time, and back on the first Sunday on or after day ed *)
(* of month em, at hour eh of local standard time.                         *)

ZoneUTC == [std |-> 0, dst |-> FALSE, sm |-> 0, sd |-> 1, sh |-> 0,
            em |-> 0, ed |-> 1, eh |-> 0]

ZoneNewYork == [std |-> -5, dst |-> TRUE, sm |-> 2, sd |-> 8, sh |-> 2,
                em |-> 10, ed |-> 1, eh |-> 1]

ZoneBerlin == [std |-> 1, dst |-> TRUE, sm |-> 2, sd |-> 25, sh |-> 2,
               em |-> 9, ed |-> 25, eh |-> 2]

ZoneLondon == [std |-> 0, dst |-> TRUE, sm |-> 2, sd |-> 25, sh |-> 1,
               em |-> 9, ed |-> 25, eh |-> 1]

(* day 0 (2024-01-01) is a Monday; Sunday is 0 *)
Weekday(n) == (n + 1) % 7

SundayOnOrAfter(n) == n + ((7 - Weekday(n)) % 7)

(* first and last hour (exclusive), in local standard time, of daylight   *)
(* saving time in year y                                                   *)
DstStart(z, y) == SundayOnOrAfter(MakeDay(y, z.sm, z.sd)) * 24 + z.sh

DstEnd(z, y) == SundayOnOrAfter(MakeDay(y, z.em, z.ed)) * 24 + z.eh

(* LocalTime(t): the local wall clock, in hours, at the instant t *)
LocalTime(z, t) ==
  LET ls == t + z.std
      y  == DayFields[ls \div 24].y
  IN  IF z.dst /\ DstStart(z, y) <= ls /\ ls < DstEnd(z, y) THEN ls + 1 ELSE ls

(* UTC(l): the instant of the local wall clock l; a wall clock time that   *)
(* is skipped or repeated is read with the offset before the transition    *)
UTC(z, l) ==
  LET y == DayFields[l \div 24].y
  IN  IF z.dst /\ DstStart(z, y) + 1 <= l /\ l < DstEnd(z, y) + 1
      THEN l - z.std - 1 ELSE l - z.std

-----------------------------------------------------------------------------
(* JavaScript Date values: a time value in hours, or NaN (Invalid Date)    *)

ValidDate(t) == [valid |-> TRUE, t |-> t]

InvalidDate == [valid |-> FALSE, t |-> 0]

(* a number that may be NaN *)
Num(n) == [nan |-> FALSE, n |-> n]

NaN == [nan |-> TRUE, n |-> 0]

(* Date strings.  "iso" is YYYY-MM-DDTHH:00:00.000Z, "date" is YYYY-MM-DD, *)
(* "bad" is a string that Date cannot parse.                               *)
IsoString(y, mo, d, h) == [fmt |-> "iso", y |-> y, mo |-> mo, d |-> d, h |-> h]

DateOnlyString(y, mo, d) == [fmt |-> "date", y |-> y, mo |-> mo, d |-> d, h |-> 0]

BadDateString == [fmt |-> "bad", y |-> 0, mo |-> 0, d |-> 0, h |-> 0]

(* new Date(string): both formats are read as UTC *)
DateParse(s) ==
  IF s.fmt = "bad" THEN InvalidDate
  ELSE ValidDate(MakeDay(s.y, s.mo - 1, s.d) * 24 + s.h)

(* new Date(year, monthIndex, day): local midnight of that day *)
DateLocal(z, y, m, day) ==
  IF day.nan THEN InvalidDate ELSE ValidDate(UTC(z, MakeDay(y, m, day.n) * 24))

(* date.getFullYear(), date.getMonth(), date.getDate(), date.getHours() *)
LocalFields(z, date) == Fields(LocalTime(z, date.t))

(* the local fields f with n days added to the day of the month *)
AddDays(z, f, n) == ValidDate(UTC(z, MakeDay(f.y, f.m, f.d + n) * 24 + f.h))

(* date.setDate(date.getDate() + n) *)
SetDatePlus(z, date, n) ==
  IF ~date.valid THEN InvalidDate ELSE AddDays(z, LocalFields(z, date), n)

IsoOfFields(f) == IsoString(f.y, f.m + 1, f.d, f.h)

(* date.toISOString(); the caller has checked date.valid, the method       *)
(* throws RangeError on an Invalid Date                                    *)
toISOString(date) == IsoOfFields(Fields(date.t))

-----------------------------------------------------------------------------
(* JavaScript strings that the code scans: sequences of characters         *)

UpperCase == <<"A","B","C","D","E","F","G","H","I","J","K","L","M",
               "N","O","P","Q","R","S","T","U","V","W","X","Y","Z">>

LowerCase == <<"a","b","c","d","e","f","g","h","i","j","k","l","m",
               "n","o","p","q","r","s","t","u","v","w","x","y","z">>

Digits == <<"0","1","2","3","4","5","6","7","8","9">>

LowerOf == [c \in {UpperCase[i] : i \in 1..26} |->
              LowerCase[CHOOSE i \in 1..26 : UpperCase[i] = c]]

LowerChar(c) == IF c \in DOMAIN LowerOf THEN LowerOf[c] ELSE c

(* s.toLowerCase() *)
toLowerCase(s) == [i \in 1..Len(s) |-> LowerChar(s[i])]

(* s.startsWith(prefix) *)
startsWith(s, prefix) ==
  Len(prefix) <= Len(s) /\ \A i \in 1..Len(prefix) : s[i] = prefix[i]

(* s.split(' '): the pieces between single spaces; never empty *)
RECURSIVE SplitFrom(_, _, _)
SplitFrom(s, i, piece) ==
  IF i > Len(s) THEN <<piece>>
  ELSE IF s[i] = " " THEN <<piece>> \o SplitFrom(s, i + 1, <<>>)
  ELSE SplitFrom(s, i + 1, Append(piece, s[i]))

split(s) == SplitFrom(s, 1, <<>>)

DigitValue == [c \in {Digits[i] : i \in 1..10} |->
                 (CHOOSE i \in 1..10 : Digits[i] = c) - 1]

IsDigit(c) == c \in DOMAIN DigitValue

(* the value of the longest run of digits at the start of s from i on *)
RECURSIVE DigitsFrom(_, _, _)
DigitsFrom(s, i, acc) ==
  IF i <= Len(s) /\ IsDigit(s[i])
  THEN DigitsFrom(s, i + 1, acc * 10 + DigitValue[s[i]]) ELSE acc

(* parseInt(s) for a piece of a split string, or for undefined: an         *)
(* optional sign and the leading digits, NaN when there is no digit        *)
Undefined == [undef |-> TRUE, s |-> <<>>]

Piece(s) == [undef |-> FALSE, s |-> s]

SignLength(s) == IF Len(s) >= 1 /\ s[1] \in {"-", "+"} THEN 1 ELSE 0

ParseIntFrom(s, first) ==
  IF first <= Len(s) /\ IsDigit(s[first])
  THEN Num(IF s[1] = "-" THEN 0 - DigitsFrom(s, first, 0)
           ELSE DigitsFrom(s, first, 0))
  ELSE NaN

parseInt(p) == IF p.undef THEN NaN ELSE ParseIntFrom(p.s, SignLength(p.s) + 1)

MONTHS == <<
  <<"J","a","n","u","a","r","y">>,
  <<"F","e","b","r","u","a","r","y">>,
  <<"M","a","r","c","h">>,
  <<"A","p","r","i","l">>,
  <<"M","a","y">>,
  <<"J","u","n","e">>,
  <<"J","u","l","y">>,
  <<"A","u","g","u","s","t">>,
  <<"S","e","p","t","e","m","b","e","r">>,
  <<"O","c","t","o","b","e","r">>,
  <<"N","o","v","e","m","b","e","r">>,
  <<"D","e","c","e","m","b","e","r">> >>

(* array.findIndex(test): the 1-based position of the first element among *)
(* the positions hits that satisfy the test, 0 when there is none          *)
FirstOf(hits) ==
  IF hits = {} THEN 0 ELSE CHOOSE i \in hits : \A j \in hits : i <= j

(* rows.find(r => r.id === id) *)
FindById(rows, id) == FirstOf({i \in 1..Len(rows) : rows[i].id = id})

-----------------------------------------------------------------------------
(* The records read by the calendar (interfaces Garden, Plant,             *)
(* PlantingSchedule, GardenPlant) and the events it builds (CalendarEvent) *)

Garden(id, name, growZone) == [id |-> id, name |-> name, growZone |-> growZone]

(* daysToMaturity is a number, or missing from the record *)
Days(n) == [missing |-> FALSE, n |-> n]

NoDays == [missing |-> TRUE, n |-> 0]

Plant(id, name, daysToMaturity) ==
  [id |-> id, name |-> name, daysToMaturity |-> daysToMaturity]

GardenPlant(id, gardenId, plantId, plantedDate) ==
  [id |-> id, gardenId |-> gardenId, plantId |-> plantId,
   plantedDate |-> plantedDate, status |-> "planned"]

CalendarEvent(id, title, type, date, plant, garden, description) ==
  [id |-> id, title |-> title, type |-> type, date |-> date, plant |-> plant,
   garden |-> garden, description |-> description]

(* the value of a condition on a number: 0, NaN and undefined are falsy *)
Truthy(daysToMaturity) == ~daysToMaturity.missing /\ daysToMaturity.n # 0

(* title.toLowerCase() for the three titles passed to addScheduleEvent *)
LowerTitle(title) ==
  CASE title = "Start Seeds Indoor" -> "start seeds indoor"
    [] title = "Direct Sow"         -> "direct sow"
    [] title = "Transplant"         -> "transplant"

-----------------------------------------------------------------------------
(* generateEvents, pass A: planted and harvest events (lines 128-161).     *)
(* The accumulator holds newEvents and whether an exception has left the   *)
(* function.                                                               *)

Running(newEvents) == [threw |-> FALSE, newEvents |-> newEvents]

Thrown(newEvents) == [threw |-> TRUE, newEvents |-> newEvents]

(* harvestDate: new Date(plantedDate), then setDate(getDate() + days) *)
HarvestDate(z, plantedDate, days) == SetDatePlus(z, DateParse(plantedDate), days)

(* the test of line 133 on the results of the two finds (0: undefined) *)
RowShown(gs, gi, pi, sel) ==
  gi # 0 /\ pi # 0 /\ (sel = "all" \/ sel = gs[gi].id)

(* lines 150-158: push the harvest event; toISOString throws RangeError   *)
(* on an Invalid Date                                                      *)
PushHarvest(planted, harvestDate, gardenPlant, plant, garden) ==
  IF harvestDate.valid
  THEN Running(Append(planted,
         CalendarEvent("harvest-" \o gardenPlant.id, "Harvest " \o plant.name,
           "harvest", toISOString(harvestDate), plant.name, garden.name,
           "Expected harvest date for " \o plant.name \o " in " \o garden.name)))
  ELSE Thrown(planted)

(* lines 144-159, after the planted event has been pushed *)
AddHarvest(planted, gardenPlant, plant, garden, z) ==
  IF Truthy(plant.daysToMaturity)
  THEN PushHarvest(planted,
         HarvestDate(z, gardenPlant.plantedDate, plant.daysToMaturity.n),
         gardenPlant, plant, garden)
  ELSE Running(planted)

(* lines 134-142 *)
PlantedEvent(gardenPlant, plant, garden) ==
  CalendarEvent("planted-" \o gardenPlant.id, "Planted " \o plant.name,
    "planted", gardenPlant.plantedDate, plant.name, garden.name,
    plant.name \o " was planted in " \o garden.name)

(* lines 133-160 with a row whose garden is not found shown under 'all',   *)
(* with an empty garden name                                               *)
AddForRowWithoutGarden(newEvents, gardenPlant, gs, ps, gi, pi, sel, z) ==
  IF gi = 0 /\ pi # 0 /\ sel = "all"
  THEN Running(Append(newEvents,
         PlantedEvent(gardenPlant, ps[pi], Garden("", "", ""))))
  ELSE IF RowShown(gs, gi, pi, sel)
  THEN AddHarvest(Append(newEvents, PlantedEvent(gardenPlant, ps[pi], gs[gi])),
                  gardenPlant, ps[pi], gs[gi], z)
  ELSE Running(newEvents)

(* lines 133-160 on the results gi and pi of the two finds *)
AddForRow(newEvents, gardenPlant, gs, ps, gi, pi, sel, z) ==
  IF RowShown(gs, gi, pi, sel)
  THEN AddHarvest(Append(newEvents, PlantedEvent(gardenPlant, ps[pi], gs[gi])),
                  gardenPlant, ps[pi], gs[gi], z)
  ELSE Running(newEvents)

(* the body of gardenPlants.forEach for one row *)
AddPlantedEvents(newEvents, gardenPlant, gs, ps, sel, z) ==
  AddForRow(newEvents, gardenPlant, gs, ps, FindById(gs, gardenPlant.gardenId),
            FindById(ps, gardenPlant.plantId), sel, z)

(* pass A written as a loop that is left at the first row whose garden or *)
(* plant is not found                                                      *)
RECURSIVE PassAStopAtDangling(_, _, _, _, _, _, _)
PassAStopAtDangling(newEvents, i, gs, ps, gps, sel, z) ==
  IF i > Len(gps) THEN Running(newEvents)
  ELSE IF \/ FindById(gs, gps[i].gardenId) = 0
          \/ FindById(ps, gps[i].plantId) = 0
       THEN Running(newEvents)
       ELSE LET r == AddPlantedEvents(newEvents, gps[i], gs, ps, sel, z)
            IN  IF r.threw THEN r
                ELSE PassAStopAtDangling(r.newEvents, i + 1, gs, ps, gps, sel, z)

RECURSIVE PassA(_, _, _, _, _, _, _)

(* after row i: an exception ends the loop *)
PassAAfter(r, i, gs, ps, gps, sel, z) ==
  IF r.threw THEN r ELSE PassA(r.newEvents, i + 1, gs, ps, gps, sel, z)

PassA(newEvents, i, gs, ps, gps, sel, z) ==
  IF i > Len(gps) THEN Running(newEvents)
  ELSE PassAAfter(AddPlantedEvents(newEvents, gps[i], gs, ps, sel, z),
                  i, gs, ps, gps, sel, z)

-----------------------------------------------------------------------------
(* generateEvents, pass B: schedule windows (lines 163-219)                *)

Null == [null |-> TRUE, date |-> InvalidDate]

Parsed(date) == [null |-> FALSE, date |-> date]

(* MONTHS.findIndex(m => m.toLowerCase().startsWith(month.toLowerCase())), *)
(* 0-based, -1 when no month matches                                       *)
MonthIndex(month) ==
  LET prefix == toLowerCase(month)
  IN  FirstOf({i \in 1..12 : startsWith(toLowerCase(MONTHS[i]), prefix)}) - 1

(* line 181 without the test of line 180 *)
DateOfMonthNoTest(monthIndex, day, currentYear, z) ==
  Parsed(DateLocal(z, currentYear, monthIndex, day))

(* lines 180-181 *)
DateOfMonth(monthIndex, day, currentYear, z) ==
  IF monthIndex = -1 THEN Null
  ELSE Parsed(DateLocal(z, currentYear, monthIndex, day))

(* lines 178-181 on the pieces [month, day] of the split label *)
ParseParts(parts, currentYear, z) ==
  DateOfMonth(MonthIndex(parts[1]),
              parseInt(IF Len(parts) >= 2 THEN Piece(parts[2]) ELSE Undefined),
              currentYear, z)

(* parseDate (lines 177-182): null, or a Date that may be invalid *)
parseDate(dateStr, currentYear, z) == ParseParts(split(dateStr), currentYear, z)

(* lines 198-206; end.toISOString() throws on an Invalid Date and the      *)
(* catch of line 208 keeps what was pushed before                          *)
PushEnd(withStart, end, type, title, schedule, plant, garden) ==
  IF ~end.date.valid THEN withStart
  ELSE Append(withStart,
         CalendarEvent(type \o "-" \o schedule.id \o "-end",
           title \o " " \o plant.name \o " (End)", type,
           toISOString(end.date), plant.name, garden.name,
           "Last optimal time to " \o LowerTitle(title) \o " "
             \o plant.name \o " in " \o garden.name))

(* lines 187-207 on the results of the two parseDate calls *)
PushWindow(newEvents, start, end, type, title, schedule, plant, garden) ==
  IF start.null \/ end.null THEN newEvents
  ELSE IF ~start.date.valid THEN newEvents
  ELSE PushEnd(Append(newEvents,
                 CalendarEvent(type \o "-" \o schedule.id \o "-start",
                   title \o " " \o plant.name \o " (Start)", type,
                   toISOString(start.date), plant.name, garden.name,
                   "Optimal time to " \o LowerTitle(title) \o " "
                     \o plant.name \o " in " \o garden.name)),
               end, type, title, schedule, plant, garden)

(* addScheduleEvent (lines 172-211); a label that is undefined, null or    *)
(* the empty string is the empty sequence                                  *)
addScheduleEvent(newEvents, startDate, endDate, type, title, schedule, plant, garden, currentYear, z) ==
  IF startDate = <<>> \/ endDate = <<>> THEN newEvents
  ELSE PushWindow(newEvents, parseDate(startDate, currentYear, z),
                  parseDate(endDate, currentYear, z),
                  type, title, schedule, plant, garden)

(* the three calls followed by a fourth, copied from the third, for the   *)
(* harvest window                                                          *)
AddWindowsWithHarvest(newEvents, garden, schedule, plant, currentYear, z) ==
  addScheduleEvent(
    addScheduleEvent(
      addScheduleEvent(
        addScheduleEvent(newEvents, schedule.sowIndoorStart, schedule.sowIndoorEnd,
                         "sow-indoor", "Start Seeds Indoor", schedule, plant,
                         garden, currentYear, z),
        schedule.sowOutdoorStart, schedule.sowOutdoorEnd,
        "sow-outdoor", "Direct Sow", schedule, plant, garden, currentYear, z),
      schedule.transplantStart, schedule.transplantEnd,
      "transplant", "Transplant", schedule, plant, garden, currentYear, z),
    schedule.harvestStart, schedule.harvestEnd,
    "harvest", "Transplant", schedule, plant, garden, currentYear, z)

(* lines 213-215: the three calls, in order *)
AddWindows(newEvents, garden, schedule, plant, currentYear, z) ==
  addScheduleEvent(
    addScheduleEvent(
      addScheduleEvent(newEvents, schedule.sowIndoorStart, schedule.sowIndoorEnd,
                       "sow-indoor", "Start Seeds Indoor", schedule, plant,
                       garden, currentYear, z),
      schedule.sowOutdoorStart, schedule.sowOutdoorEnd,
      "sow-outdoor", "Direct Sow", schedule, plant, garden, currentYear, z),
    schedule.transplantStart, schedule.transplantEnd,
    "transplant", "Transplant", schedule, plant, garden, currentYear, z)

(* lines 168-169 on the result pi of the find *)
AddForPlant(newEvents, garden, schedule, ps, pi, currentYear, z) ==
  IF pi = 0 THEN newEvents
  ELSE AddWindows(newEvents, garden, schedule, ps[pi], currentYear, z)

(* the body of schedules.forEach for one schedule of one garden *)
AddScheduleEvents(newEvents, garden, schedule, ps, currentYear, z) ==
  IF schedule.growZone = garden.growZone
  THEN AddForPlant(newEvents, garden, schedule, ps,
                   FindById(ps, schedule.plantId), currentYear, z)
  ELSE newEvents

RECURSIVE ForEachSchedule(_, _, _, _, _, _, _)
ForEachSchedule(newEvents, garden, j, ps, ss, currentYear, z) ==
  IF j > Len(ss) THEN newEvents
  ELSE ForEachSchedule(
         AddScheduleEvents(newEvents, garden, ss[j], ps, currentYear, z),
         garden, j + 1, ps, ss, currentYear, z)

(* the test of line 165 *)
GardenShown(garden, sel) == sel = "all" \/ sel = garden.id

RECURSIVE PassB(_, _, _, _, _, _, _, _)
PassB(newEvents, i, gs, ps, ss, sel, currentYear, z) ==
  IF i > Len(gs) THEN newEvents
  ELSE PassB(IF GardenShown(gs[i], sel)
             THEN ForEachSchedule(newEvents, gs[i], 1, ps, ss, currentYear, z)
             ELSE newEvents,
             i + 1, gs, ps, ss, sel, currentYear, z)

(* lines 163-219 after pass A; an exception of pass A has left the function *)
AfterPassA(a, gs, ps, ss, sel, currentYear, z) ==
  IF a.threw THEN a
  ELSE Running(PassB(a.newEvents, 1, gs, ps, ss, sel, currentYear, z))

(* generateEvents pushing onto the events of the state instead of onto a  *)
(* new list                                                                *)
generateEventsOntoEvents(gs, ps, ss, gps, sel, cur, z) ==
  AfterPassA(PassA(events, 1, gs, ps, gps, sel, z), gs, ps, ss, sel,
             LocalFields(z, cur).y, z)

(* generateEvents (lines 124-222) up to the call of setEvents: the list    *)
(* it would store, or the fact that an exception left it before            *)
generateEvents(gs, ps, ss, gps, sel, cur, z) ==
  AfterPassA(PassA(<<>>, 1, gs, ps, gps, sel, z), gs, ps, ss, sel,
             LocalFields(z, cur).y, z)

-----------------------------------------------------------------------------
(* Bounded inputs: the rows the backend may return                         *)

PlantingSchedule(id, plantId, growZone, sowIndoor, sowOutdoor, transplant) ==
  [id |-> id, plantId |-> plantId, growZone |-> growZone,
   sowIndoorStart |-> sowIndoor[1], sowIndoorEnd |-> sowIndoor[2],
   transplantStart |-> transplant[1], transplantEnd |-> transplant[2],
   sowOutdoorStart |-> sowOutdoor[1], sowOutdoorEnd |-> sowOutdoor[2],
   harvestStart |-> <<"J","u","l"," ","1">>,
   harvestEnd |-> <<"A","u","g"," ","1">>]

LabelMar15 == <<"M","a","r"," ","1","5">>

LabelApr1 == <<"A","p","r"," ","1">>

LabelMay1 == <<"M","a","y"," ","1">>

LabelJun1 == <<"J","u","n"," ","1">>

LabelMarch15 == <<"M","a","r","c","h"," ","1","5">>

LabelSmarch5 == <<"S","m","a","r","c","h"," ","5">>

LabelApr == <<"A","p","r">>

LabelAprX == <<"A","p","r"," ","x">>

NoLabel == <<>>

Absent == <<NoLabel, NoLabel>>

Zones == {ZoneUTC, ZoneNewYork, ZoneBerlin}

CurrentDates == {DateParse(IsoString(2025, 6, 15, 12)),
                 DateParse(IsoString(2024, 12, 31, 23))}

GardenNorth == Garden("g1", "North", "6")

GardenLists ==
  { <<GardenNorth>>,
    <<GardenNorth, Garden("g2", "South", "6")>>,
    <<GardenNorth, Garden("g2", "South", "7")>> }

DaysChoices == {NoDays, Days(0), Days(-5), Days(60)}

PlantLists == { <<Plant("p1", "Tomato", d)>> : d \in DaysChoices }

(* rows of gardenPlants without their ids: resolved rows, and rows whose   *)
(* plant or garden does not exist                                          *)
GardenPlantRows ==
  { GardenPlant("", "g1", "p1", DateOnlyString(2024, 3, 1)),
    GardenPlant("", "g2", "p1", IsoString(2024, 12, 20, 23)),
    GardenPlant("", "g1", "p1", BadDateString),
    GardenPlant("", "g1", "p9", DateOnlyString(2024, 3, 1)),
    GardenPlant("", "g9", "p1", BadDateString) }

(* rows of plantingSchedules without their ids *)
ScheduleRows ==
  { PlantingSchedule("", "p1", "6", <<LabelMar15, LabelApr1>>, Absent, Absent),
    PlantingSchedule("", "p1", "6", <<LabelMar15, LabelApr>>, Absent, Absent),
    PlantingSchedule("", "p1", "6", <<LabelAprX, LabelApr1>>, Absent,
                     <<LabelSmarch5, LabelJun1>>),
    PlantingSchedule("", "p1", "6", <<LabelMar15, LabelApr1>>, Absent,
                     <<LabelSmarch5, LabelJun1>>),
    PlantingSchedule("", "p1", "6", <<LabelMar15, LabelApr1>>,
                     <<LabelMay1, LabelJun1>>, <<LabelMarch15, LabelJun1>>),
    PlantingSchedule("", "p9", "6", <<LabelMar15, LabelApr1>>, Absent, Absent),
    PlantingSchedule("", "p1", "7", <<LabelMar15, LabelApr1>>, Absent,
                     <<LabelMay1, NoLabel>>) }

GardenPlantIds == <<"gp1", "gp2", "gp3", "gp4">>

ScheduleIds == <<"s1", "s2", "s3", "s4">>

(* the lists of at most n rows of S, the k-th row carrying the k-th id *)
ListsOf(S, n, ids) ==
  UNION { { [k \in 1..len |-> [f[k] EXCEPT !.id = ids[k]]] : f \in [1..len -> S] }
          : len \in 0..n }

-----------------------------------------------------------------------------
(* The derivation as a state machine: the inputs are drawn once, the       *)
(* effect runs generateEvents, and the garden filter is changed from the   *)
(* Select, which runs the effect again.                                    *)

InitPlantings ==
  /\ plants \in PlantLists
  /\ gardenPlants \in ListsOf(GardenPlantRows, MaxGardenPlants, GardenPlantIds)
  /\ schedules \in ListsOf({PlantingSchedule("", "p1", "6",
                     <<LabelMar15, LabelApr1>>, Absent, Absent)}, 1, ScheduleIds)
  /\ currentDate = DateParse(IsoString(2025, 6, 15, 12))

InitSchedules ==
  /\ plants = <<Plant("p1", "Tomato", Days(60))>>
  /\ gardenPlants \in ListsOf({GardenPlant("", "g1", "p9", DateOnlyString(2024, 3, 1))},
                              1, GardenPlantIds)
  /\ schedules \in ListsOf(ScheduleRows, MaxSchedules, ScheduleIds)
  /\ currentDate \in CurrentDates
  /\ currentDate = DateParse(IsoString(2024, 12, 31, 23)) => tz = ZoneBerlin

Init ==
  /\ gardens \in GardenLists
  /\ tz \in Zones
  /\ selectedGarden = "all"
  /\ events = <<>>
  /\ phase = "idle"
  /\ \/ InitPlantings
     \/ InitSchedules
  /\ now = currentDate
  /\ upcomingEvents = <<>>
  /\ loadPc = "returned"
  /\ OthersUnmounted

(* setEvents(newEvents) at line 221; a run that an exception has left     *)
(* does not reach it                                                       *)
SetEvents(r) ==
  IF r.threw
  THEN /\ events' = events
       /\ phase' = "threw"
  ELSE /\ events' = r.newEvents
       /\ phase' = "done"

(* one run of the effect body: generateEvents and its setEvents *)
RunGenerateEvents(sel) ==
  SetEvents(generateEvents(gardens, plants, schedules, gardenPlants, sel,
                           currentDate, tz))

(* the effect with a run that orders the schedules in place (here:        *)
(* reverses them) before it visits them                                    *)
GenerateEventsSortingSchedules ==
  /\ phase = "idle"
  /\ IF Len(gardens) > 0
     THEN RunGenerateEvents(selectedGarden)
     ELSE /\ events' = events
          /\ phase' = "done"
  /\ schedules' = [j \in 1..Len(schedules) |-> schedules[Len(schedules) + 1 - j]]
  /\ UNCHANGED <<gardens, plants, gardenPlants, currentDate, tz, selectedGarden, shown>>
  /\ UNCHANGED elsewhere

(* the effect of lines 123-227 once loading is false: it runs            *)
(* generateEvents only when there is a garden (line 224)                   *)
GenerateEvents ==
  /\ phase = "idle"
  /\ IF Len(gardens) > 0
     THEN RunGenerateEvents(selectedGarden)
     ELSE /\ events' = events
          /\ phase' = "done"
  /\ UNCHANGED <<inputs, selectedGarden, shown>>
  /\ UNCHANGED elsewhere

(* the options of the Select: 'all' and the id of every garden *)
SelectItems == {"all"} \cup {gardens[i].id : i \in 1..Len(gardens)}

(* onValueChange of the Select, and the effect it triggers *)
SetSelectedGarden(value) ==
  /\ phase = "done"
  /\ value # selectedGarden
  /\ selectedGarden' = value
  /\ IF Len(gardens) > 0
     THEN RunGenerateEvents(value)
     ELSE UNCHANGED <<events, phase>>
  /\ UNCHANGED <<inputs, shown>>
  /\ UNCHANGED elsewhere

Next ==
  \/ GenerateEvents
  \/ \E value \in SelectItems : SetSelectedGarden(value)

SpecDerive == Init /\ [][Next]_vars

-----------------------------------------------------------------------------
(* The calendar from its mount: loadData fills the collections, the effect *)
(* derives the events, the Select changes the filter and the two buttons   *)
(* change the month; each change of an input schedules the effect again.   *)
(* phase is "loading" while loadData runs, "idle" while the effect is      *)
(* pending, "done" when it has run, and "threw" when an exception left it. *)

MaxNavigate == 4

(* the months the model navigates through: December 2024 and the           *)
(* MaxNavigate months after it                                             *)
NavigableMonths == (2024 * 12 + 11)..(2024 * 12 + 11 + MaxNavigate)

LabelSpace5 == <<" ","5">>

LabelFeb30 == <<"F","e","b"," ","3","0">>

LabelJan1 == <<"J","a","n"," ","1">>

LabelDec31 == <<"D","e","c"," ","3","1">>

ScheduleAllWindows ==
  PlantingSchedule("", "p1", "6", <<LabelMar15, LabelApr1>>,
                   <<LabelMay1, LabelJun1>>, <<LabelMarch15, LabelJun1>>)

(* what the four list calls of loadData can return *)
LoadedGardens ==
  { <<>>, <<GardenNorth>>, <<GardenNorth, Garden("g2", "South", "6")>> }

LoadedPlants == { <<Plant("p1", "Tomato", Days(60)), Plant("p2", "Basil", NoDays)>> }

LoadedSchedules ==
  { <<>>,
    <<[ScheduleAllWindows EXCEPT !.id = "s1"]>>,
    <<[ScheduleAllWindows EXCEPT !.id = "s1"], [ScheduleAllWindows EXCEPT !.id = "s2"]>>,
    <<PlantingSchedule("s1", "p1", "6", <<LabelSpace5, LabelApr1>>, Absent, Absent)>>,
    <<PlantingSchedule("s1", "p1", "6", <<LabelJan1, LabelDec31>>,
                       <<LabelFeb30, LabelApr1>>, Absent)>> }

LoadedGardenPlants ==
  { <<>>,
    <<GardenPlant("gp1", "g1", "p1", DateOnlyString(2024, 3, 1))>>,
    <<GardenPlant("gp1", "g1", "p1", BadDateString)>>,
    <<GardenPlant("gp1", "g1", "p2", BadDateString)>> }

(* new Date() at the mount of the component *)
MountDates == {DateParse(IsoString(2025, 3, 2, 0)),
               DateParse(IsoString(2024, 12, 31, 23))}

(* the state of lines 71-78 at the mount *)
InitCalendar ==
  /\ gardens = <<>>
  /\ plants = <<>>
  /\ schedules = <<>>
  /\ gardenPlants = <<>>
  /\ selectedGarden = "all"
  /\ currentDate \in MountDates
  /\ events = <<>>
  /\ phase = "loading"
  /\ tz \in Zones
  /\ now = currentDate
  /\ upcomingEvents = <<>>
  /\ loadPc = "me"
  /\ OthersUnmounted

(* loadData (lines 81-116) runs once, from the effect of lines 118-120.    *)
(* loadPc is the call it awaits: auth.me, then the four list calls in      *)
(* order; "returned" after its finally.                                    *)
LoadCalls == <<"me", "gardens", "plants", "schedules", "gardenPlants">>

CallIndex(pc) == CHOOSE k \in 1..Len(LoadCalls) : LoadCalls[k] = pc

(* the awaited call resolves: its setter runs and loadData goes on to the  *)
(* next call, or past the last one to finally, which sets loading to false *)
LoadResolved(k) ==
  /\ gardens' \in IF k = 2 THEN LoadedGardens ELSE {gardens}
  /\ plants' \in IF k = 3 THEN LoadedPlants ELSE {plants}
  /\ schedules' \in IF k = 4 THEN LoadedSchedules ELSE {schedules}
  /\ gardenPlants' \in IF k = 5 THEN LoadedGardenPlants ELSE {gardenPlants}
  /\ loadPc' = IF k < Len(LoadCalls) THEN LoadCalls[k + 1] ELSE "returned"
  /\ phase' = IF k < Len(LoadCalls) THEN phase ELSE "idle"

(* a catch without the finally: loading stays true *)
LoadRejectedWithoutFinally ==
  /\ UNCHANGED <<gardens, plants, schedules, gardenPlants>>
  /\ loadPc' = "returned"
  /\ phase' = phase

(* the awaited call rejects: catch (console.error and toast), then finally *)
LoadRejected ==
  /\ UNCHANGED <<gardens, plants, schedules, gardenPlants>>
  /\ loadPc' = "returned"
  /\ phase' = "idle"

(* one step of loadData: the call it awaits settles *)
LoadData ==
  /\ phase = "loading"
  /\ loadPc # "returned"
  /\ \/ LoadResolved(CallIndex(loadPc))
     \/ LoadRejected
  /\ UNCHANGED <<selectedGarden, currentDate, events, tz, shown, others>>

(* onValueChange={setSelectedGarden} (line 319) *)
OnValueChange(value) ==
  /\ phase = "done"
  /\ value # selectedGarden
  /\ selectedGarden' = value
  /\ phase' = "idle"
  /\ UNCHANGED <<inputs, events, shown>>
  /\ UNCHANGED elsewhere

(* the local fields f with n months added to the month *)
AddMonths(z, f, n) == ValidDate(UTC(z, MakeDay(f.y, f.m + n, f.d) * 24 + f.h))

(* newDate.setMonth(newDate.getMonth() + n) *)
SetMonthPlus(z, date, n) == AddMonths(z, LocalFields(z, date), n)

MonthNumber(f) == f.y * 12 + f.m

(* navigateMonth (lines 242-252) *)
navigateMonth(direction) ==
  /\ phase = "done"
  /\ currentDate' = SetMonthPlus(tz, currentDate, IF direction = "prev" THEN -1 ELSE 1)
  /\ MonthNumber(LocalFields(tz, currentDate')) \in NavigableMonths
  /\ phase' = "idle"
  /\ UNCHANGED <<gardens, plants, schedules, gardenPlants, tz, selectedGarden,
                 events, shown>>
  /\ UNCHANGED elsewhere

(* the render of the upcoming events (lines 406-415) *)

(* eventDate >= now && eventDate <= thirtyDaysFromNow; a comparison with    *)
(* an Invalid Date is false                                                *)
DateInRange(eventDate, clock) ==
  /\ eventDate.valid
  /\ eventDate.t >= clock.t
  /\ eventDate.t <= clock.t + 30 * 24

InRange(event, clock) == DateInRange(DateParse(event.date), clock)

InsertAt(sorted, event, p) ==
  SubSeq(sorted, 1, p) \o <<event>> \o SubSeq(sorted, p + 1, Len(sorted))

(* sort with the comparator of line 414 is stable: an event goes behind    *)
(* the events that are not later than it                                   *)
InsertByDate(sorted, event) ==
  InsertAt(sorted, event,
           Cardinality({k \in 1..Len(sorted) :
                          DateParse(sorted[k].date).t <= DateParse(event.date).t}))

RECURSIVE SortByDate(_, _)
SortByDate(sorted, rest) ==
  IF rest = <<>> THEN sorted
  ELSE SortByDate(InsertByDate(sorted, Head(rest)), Tail(rest))

(* array.slice(0, n) *)
slice(array, n) == SubSeq(array, 1, IF Len(array) < n THEN Len(array) ELSE n)

(* the list cut to ten events before it is sorted *)
UpcomingEventsSliceFirst(evs, clock) ==
  SortByDate(<<>>, slice(SelectSeq(evs, LAMBDA event : InRange(event, clock)), 10))

UpcomingEvents(evs, clock) ==
  slice(SortByDate(<<>>, SelectSeq(evs, LAMBDA event : InRange(event, clock))), 10)

(* new Date() at a render: the clock does not run backwards *)
ClockTimes == {DateParse(IsoString(2025, 3, 2, 0)),
               DateParse(IsoString(2025, 3, 15, 0))}

(* a render of the component once loading is false (line 296) *)
RenderUpcoming ==
  /\ phase \in {"idle", "done"}
  /\ \E clock \in ClockTimes \cup {now} :
       /\ clock.t >= now.t
       /\ now' = clock
       /\ upcomingEvents' = UpcomingEvents(events, clock)
  /\ UNCHANGED <<inputs, selectedGarden, events, phase>>
  /\ UNCHANGED elsewhere

NextCalendar ==
  \/ LoadData
  \/ GenerateEvents
  \/ \E value \in SelectItems : OnValueChange(value)
  \/ \E direction \in {"prev", "next"} : navigateMonth(direction)
  \/ RenderUpcoming

SpecCalendar == InitCalendar /\ [][NextCalendar]_vars

-----------------------------------------------------------------------------
(* Vocabulary of the properties                                            *)

(* the list produced by the last run of generateEvents; a run that an      *)
(* exception left has produced none                                        *)
Emitted == IF phase = "done" THEN events ELSE <<>>

Derived(sel) ==
  generateEvents(gardens, plants, schedules, gardenPlants, sel, currentDate, tz)

(* the state is the outcome r of a run *)
SameOutcome(r) ==
  /\ r.threw = (phase = "threw")
  /\ phase = "done" => events = r.newEvents

EventSet(r) ==
  IF r.threw THEN {} ELSE {r.newEvents[k] : k \in 1..Len(r.newEvents)}

IdsOf(evs) == {evs[k].id : k \in 1..Len(evs)}

Occurrences(evs, id, gardenName) ==
  {k \in 1..Len(evs) : evs[k].id = id /\ evs[k].garden = gardenName}

Remove(seq, i) == SubSeq(seq, 1, i - 1) \o SubSeq(seq, i + 1, Len(seq))

GardenExists(id) == \E i \in 1..Len(gardens) : gardens[i].id = id

PlantExists(id) == \E i \in 1..Len(plants) : plants[i].id = id

PlantById(id) == plants[CHOOSE i \in 1..Len(plants) : plants[i].id = id]

WindowTypes == {"sow-indoor", "sow-outdoor", "transplant"}

StartLabel(schedule, type) ==
  CASE type = "sow-indoor"  -> schedule.sowIndoorStart
    [] type = "sow-outdoor" -> schedule.sowOutdoorStart
    [] type = "transplant"  -> schedule.transplantStart

EndLabel(schedule, type) ==
  CASE type = "sow-indoor"  -> schedule.sowIndoorEnd
    [] type = "sow-outdoor" -> schedule.sowOutdoorEnd
    [] type = "transplant"  -> schedule.transplantEnd

StartId(schedule, type) == type \o "-" \o schedule.id \o "-start"

EndId(schedule, type) == type \o "-" \o schedule.id \o "-end"

(* a label with a month name or abbreviation and a day number *)
Recognised(label) ==
  /\ label # <<>>
  /\ \E i \in 1..12 : startsWith(toLowerCase(MONTHS[i]), toLowerCase(split(label)[1]))

Parseable(label) ==
  /\ Recognised(label)
  /\ Len(split(label)) >= 2
  /\ ~parseInt(Piece(split(label)[2])).nan

LabelMonth(label) ==
  CHOOSE m \in 0..11 :
    /\ startsWith(toLowerCase(MONTHS[m + 1]), toLowerCase(split(label)[1]))
    /\ \A n \in 0..(m - 1) :
         ~startsWith(toLowerCase(MONTHS[n + 1]), toLowerCase(split(label)[1]))

LabelDay(label) == parseInt(Piece(split(label)[2])).n

(* the day a date string names, as written in it, and the local day on     *)
(* which its instant falls                                                 *)
WrittenDay(s) == MakeDay(s.y, s.mo - 1, s.d)

LocalDay(s) == LocalTime(tz, DateParse(s).t) \div 24

ReferenceYear == LocalFields(tz, currentDate).y

(* the row is resolved and passes the filter *)
RowResolved(row) ==
  /\ GardenExists(row.gardenId)
  /\ PlantExists(row.plantId)
  /\ selectedGarden \in {"all", row.gardenId}

(* the window of the schedule emits for the garden *)
WindowEmits(garden, schedule, type) ==
  /\ selectedGarden \in {"all", garden.id}
  /\ schedule.growZone = garden.growZone
  /\ PlantExists(schedule.plantId)
  /\ Parseable(StartLabel(schedule, type))
  /\ Parseable(EndLabel(schedule, type))

-----------------------------------------------------------------------------
(* C1: in a completed run, every window of a matching schedule whose two   *)
(* labels are present and parseable has, for each garden that passes the   *)
(* filter, exactly one Start and one End event of the window's type, at    *)
(* local midnight of the labels' month and day in the reference year, and  *)
(* there is no other event of a window type.                               *)
C1_WindowEventsExact ==
  phase = "done" =>
    /\ \A gi \in 1..Len(gardens), si \in 1..Len(schedules), type \in WindowTypes :
         LET garden   == gardens[gi]
             schedule == schedules[si]
             starts   == Occurrences(events, StartId(schedule, type), garden.name)
             ends     == Occurrences(events, EndId(schedule, type), garden.name)
             OnDay(k, label) ==
               /\ events[k].type = type
               /\ LocalDay(events[k].date)
                    = MakeDay(ReferenceYear, LabelMonth(label), LabelDay(label))
         IN  WindowEmits(garden, schedule, type) =>
               /\ Cardinality(starts) = 1
               /\ Cardinality(ends) = 1
               /\ \A k \in starts : OnDay(k, StartLabel(schedule, type))
               /\ \A k \in ends : OnDay(k, EndLabel(schedule, type))
    /\ \A k \in 1..Len(events) :
         events[k].type \in WindowTypes =>
           \E gi \in 1..Len(gardens), si \in 1..Len(schedules) :
             /\ WindowEmits(gardens[gi], schedules[si], events[k].type)
             /\ events[k].garden = gardens[gi].name
             /\ events[k].id \in {StartId(schedules[si], events[k].type),
                                  EndId(schedules[si], events[k].type)}

(* C2: in a completed run a window has its Start event for a garden        *)
(* exactly when it has its End event for that garden.                      *)
C2_WindowPairAtomic ==
  phase = "done" =>
    \A gi \in 1..Len(gardens), si \in 1..Len(schedules), type \in WindowTypes :
      (Occurrences(events, StartId(schedules[si], type), gardens[gi].name) # {})
        <=> (Occurrences(events, EndId(schedules[si], type), gardens[gi].name) # {})

(* C3: after a run, every resolved row that passes the filter has exactly  *)
(* one event planted-{id}, of type planted and dated plantedDate, and      *)
(* every other row has none.                                               *)
C3_PlantedEventPerRow ==
  phase # "idle" =>
    \A i \in 1..Len(gardenPlants) :
      LET row  == gardenPlants[i]
          mine == {k \in 1..Len(Emitted) : Emitted[k].id = "planted-" \o row.id}
      IN  IF RowResolved(row)
          THEN /\ Cardinality(mine) = 1
               /\ \A k \in mine : /\ Emitted[k].type = "planted"
                                  /\ Emitted[k].date = row.plantedDate
          ELSE mine = {}

(* C4: in a completed run, the event harvest-{id} of a row is dated        *)
(* daysToMaturity days after the day written in plantedDate, whether the   *)
(* event's day is read as written in its date or on the local calendar.    *)
C4_HarvestAfterDays ==
  phase = "done" =>
    \A i \in 1..Len(gardenPlants), k \in 1..Len(events) :
      events[k].id = "harvest-" \o gardenPlants[i].id =>
        LET row    == gardenPlants[i]
            target == WrittenDay(row.plantedDate)
                        + PlantById(row.plantId).daysToMaturity.n
        IN  \/ WrittenDay(events[k].date) = target
            \/ LocalDay(events[k].date) = target

(* C5: in a completed run, a resolved row that passes the filter has its   *)
(* planted event, and has a harvest event exactly when daysToMaturity is   *)
(* a positive number.                                                      *)
C5_HarvestIffPositive ==
  phase = "done" =>
    \A i \in 1..Len(gardenPlants) :
      LET row == gardenPlants[i]
      IN  RowResolved(row) =>
            /\ "planted-" \o row.id \in IdsOf(events)
            /\ ("harvest-" \o row.id \in IdsOf(events))
                 <=> /\ ~PlantById(row.plantId).daysToMaturity.missing
                     /\ PlantById(row.plantId).daysToMaturity.n > 0

(* C6: after a run, a gardenPlants row whose plant or garden does not      *)
(* exist and a schedule whose plant does not exist have no event, and the  *)
(* outcome of the run is the outcome of the run without that row.          *)
C6_DanglingRowsSkipped ==
  phase # "idle" =>
    /\ \A i \in 1..Len(gardenPlants) :
         LET row == gardenPlants[i]
         IN  ~(GardenExists(row.gardenId) /\ PlantExists(row.plantId)) =>
               /\ {"planted-" \o row.id, "harvest-" \o row.id} \cap IdsOf(Emitted) = {}
               /\ SameOutcome(generateEvents(gardens, plants, schedules,
                    Remove(gardenPlants, i), selectedGarden, currentDate, tz))
    /\ \A j \in 1..Len(schedules) :
         ~PlantExists(schedules[j].plantId) =>
           /\ \A type \in WindowTypes :
                {StartId(schedules[j], type), EndId(schedules[j], type)}
                  \cap IdsOf(Emitted) = {}
           /\ SameOutcome(generateEvents(gardens, plants, Remove(schedules, j),
                gardenPlants, selectedGarden, currentDate, tz))

(* a run has completed with a dangling gardenPlants row and a dangling     *)
(* schedule among rows that emit events                                    *)
C6_Witness ==
  /\ phase = "done"
  /\ events # <<>>
  /\ \E i \in 1..Len(gardenPlants) : ~PlantExists(gardenPlants[i].plantId)
  /\ \E j \in 1..Len(schedules) :
       /\ ~PlantExists(schedules[j].plantId)
       /\ \E gi \in 1..Len(gardens) : gardens[gi].growZone = schedules[j].growZone

(* C7: after a run, a schedule whose transplantStart has an unrecognised   *)
(* month has no transplant event, and the outcome of the run is the        *)
(* outcome of the run with that schedule's transplant labels absent.       *)
C7_MalformedLabelDropsOwnPair ==
  phase # "idle" =>
    \A j \in 1..Len(schedules) :
      LET schedule == schedules[j]
      IN  (schedule.transplantStart # <<>> /\ ~Recognised(schedule.transplantStart)) =>
            /\ {StartId(schedule, "transplant"), EndId(schedule, "transplant")}
                 \cap IdsOf(Emitted) = {}
            /\ SameOutcome(generateEvents(gardens, plants,
                 [schedules EXCEPT ![j].transplantStart = <<>>,
                                   ![j].transplantEnd = <<>>],
                 gardenPlants, selectedGarden, currentDate, tz))

(* a run has completed in which a schedule with transplantStart "Smarch 5" *)
(* has emitted both events of its sow-indoor window                        *)
C7_Witness ==
  /\ phase = "done"
  /\ \E j \in 1..Len(schedules) :
       /\ schedules[j].transplantStart = LabelSmarch5
       /\ schedules[j].transplantEnd # <<>>
       /\ StartId(schedules[j], "sow-indoor") \in IdsOf(events)
       /\ EndId(schedules[j], "sow-indoor") \in IdsOf(events)

(* C8: in a completed run no two events of the list have the same id.      *)
C8_EventIdsUnique ==
  phase = "done" =>
    \A i, j \in 1..Len(events) : i # j => events[i].id # events[j].id

(* C9: after a run with filter 'all' the events are the union of the       *)
(* events derived with each garden id as filter, and after a run with a    *)
(* garden id as filter they are the events of that garden derived with     *)
(* filter 'all'.                                                           *)
C9_FilterUnion ==
  phase # "idle" =>
    LET mine == {Emitted[k] : k \in 1..Len(Emitted)}
    IN  IF selectedGarden = "all"
        THEN mine = UNION {EventSet(Derived(gardens[i].id)) : i \in 1..Len(gardens)}
        ELSE \A i \in 1..Len(gardens) :
               gardens[i].id = selectedGarden =>
                 mine = {e \in EventSet(Derived("all")) : e.garden = gardens[i].name}

(* C10: in a completed run with a garden id as filter, no event id of the  *)
(* list is an event id derived with another garden's id as filter.         *)
C10_FilterDisjoint ==
  (phase = "done" /\ selectedGarden # "all") =>
    \A i \in 1..Len(gardens) :
      gardens[i].id # selectedGarden =>
        IdsOf(events) \cap IdsOf(Derived(gardens[i].id).newEvents) = {}

(* C11: no run of generateEvents is left by an exception: every run ends   *)
(* with a list stored by setEvents.                                        *)
C11_NeverRaises == phase # "threw"

(* C12: whenever loading is false and the effect has settled, the events   *)
(* state is the list derived from the current gardens, plants, schedules,  *)
(* gardenPlants, selectedGarden and currentDate.                           *)
C12_EventsAreDerivation ==
  phase \in {"done", "threw"} =>
    /\ ~Derived(selectedGarden).threw
    /\ events = Derived(selectedGarden).newEvents

(* the month token of a label, and whether it is the name of a month or an *)
(* abbreviation of it (its first three letters or more)                    *)
MonthToken(label) == split(label)[1]

IsMonthName(token) ==
  /\ Len(token) >= 3
  /\ \E i \in 1..12 : startsWith(toLowerCase(MONTHS[i]), toLowerCase(token))

(* C13: in a completed run, a window with two present labels of which one  *)
(* has a month token that is not a month name or abbreviation (an unknown  *)
(* word, an empty token) has no event.                                     *)
C13_UnknownMonthEmitsNothing ==
  phase = "done" =>
    \A si \in 1..Len(schedules), type \in WindowTypes :
      LET start == StartLabel(schedules[si], type)
          end   == EndLabel(schedules[si], type)
      IN  ( /\ start # <<>>
            /\ end # <<>>
            /\ ~(IsMonthName(MonthToken(start)) /\ IsMonthName(MonthToken(end))) )
          => {StartId(schedules[si], type), EndId(schedules[si], type)}
               \cap IdsOf(events) = {}

(* the local calendar fields of the instant a date string denotes *)
LocalFieldsOf(s) == LocalFields(tz, DateParse(s))

(* the event is on the local day that the label names in the reference     *)
(* year                                                                    *)
OnLabelDay(e, label) ==
  /\ LocalFieldsOf(e.date).y = ReferenceYear
  /\ LocalFieldsOf(e.date).m = LabelMonth(label)
  /\ LocalFieldsOf(e.date).d = LabelDay(label)

(* C14: in a completed run, every Start and End event of a schedule window *)
(* falls in the reference year, in the month its label names and on the    *)
(* day number its label gives.                                             *)
C14_WindowEventOnLabelDay ==
  phase = "done" =>
    \A k \in 1..Len(events), si \in 1..Len(schedules), type \in WindowTypes :
      /\ events[k].id = StartId(schedules[si], type)
           => OnLabelDay(events[k], StartLabel(schedules[si], type))
      /\ events[k].id = EndId(schedules[si], type)
           => OnLabelDay(events[k], EndLabel(schedules[si], type))

(* C15: in a completed run every event is either the planted or the        *)
(* harvest event of a gardenPlants row, with that type and the id          *)
(* planted-{id} or harvest-{id}, or the Start or End event of a window of  *)
(* a schedule, with the window's type (sow-indoor, sow-outdoor or          *)
(* transplant); so no event of a schedule has type harvest.                *)
C15_TypesByPass ==
  phase = "done" =>
    \A k \in 1..Len(events) :
      \/ \E i \in 1..Len(gardenPlants) :
           \/ /\ events[k].id = "planted-" \o gardenPlants[i].id
              /\ events[k].type = "planted"
           \/ /\ events[k].id = "harvest-" \o gardenPlants[i].id
              /\ events[k].type = "harvest"
      \/ \E si \in 1..Len(schedules), type \in WindowTypes :
           /\ events[k].id \in {StartId(schedules[si], type), EndId(schedules[si], type)}
           /\ events[k].type = type

(* a run has completed with a harvest event of a planting and events of a  *)
(* schedule whose harvestStart and harvestEnd are present                  *)
C15_Witness ==
  /\ phase = "done"
  /\ \E k \in 1..Len(events) : events[k].type = "harvest"
  /\ \E k \in 1..Len(events), si \in 1..Len(schedules) :
       /\ events[k].id = StartId(schedules[si], "sow-indoor")
       /\ schedules[si].harvestStart # <<>>
       /\ schedules[si].harvestEnd # <<>>

(* C16: when a run has stored its list, a second run on the same gardens,  *)
(* plants, schedules, gardenPlants, filter and reference year produces the *)
(* same events (same ids and fields), whatever runs came before and        *)
(* although the events state now holds the first run's list.               *)
C16_RunTwiceSameEvents ==
  (phase = "done" /\ Len(gardens) > 0) =>
    /\ ~Derived(selectedGarden).threw
    /\ Derived(selectedGarden).newEvents = events

(* a run has stored a non-empty list after an earlier run with another     *)
(* filter                                                                  *)
C16_Witness ==
  /\ phase = "done"
  /\ selectedGarden # "all"
  /\ events # <<>>

(* C17: when the effect has settled with an empty gardens collection, the  *)
(* events are empty and generateEvents on the current inputs yields the    *)
(* empty list, whatever plants, schedules and gardenPlants hold; and when  *)
(* it has settled with empty schedules and empty gardenPlants, the events  *)
(* are empty whatever gardens and plants hold.                             *)
C17_EmptyInputsEmptyResult ==
  phase = "done" =>
    /\ gardens = <<>> =>
         /\ events = <<>>
         /\ Derived(selectedGarden) = Running(<<>>)
    /\ (schedules = <<>> /\ gardenPlants = <<>>) =>
         /\ events = <<>>
         /\ Derived(selectedGarden) = Running(<<>>)

(* the effect has settled with no garden while plants, schedules and       *)
(* gardenPlants are not empty                                              *)
C17_Witness ==
  /\ phase = "done"
  /\ gardens = <<>>
  /\ plants # <<>>
  /\ schedules # <<>>
  /\ gardenPlants # <<>>

(* C18: the step of the effect, which runs generateEvents, leaves gardens, *)
(* plants, schedules, gardenPlants, selectedGarden and currentDate as they *)
(* were; of the component's state it writes only events.                   *)
C18_RunLeavesInputs ==
  [][phase = "idle" =>
       /\ gardens' = gardens
       /\ plants' = plants
       /\ schedules' = schedules
       /\ gardenPlants' = gardenPlants
       /\ selectedGarden' = selectedGarden
       /\ currentDate' = currentDate]_vars

(* a run has stored events derived from two schedules and a planting *)
C18_Witness ==
  /\ phase = "done"
  /\ events # <<>>
  /\ Len(schedules) = 2
  /\ gardenPlants # <<>>

Qualifying(evs, clock) ==
  {evs[k] : k \in {i \in 1..Len(evs) :
                     /\ DateParse(evs[i].date).valid
                     /\ clock.t <= DateParse(evs[i].date).t
                     /\ DateParse(evs[i].date).t <= clock.t + 30 * 24}}

(* up holds only qualifying events of evs, each once, in ascending order   *)
(* of date, at most 10 of them, all of them when 10 or fewer qualify, and  *)
(* no qualifying event left out is earlier than one it holds               *)
IsUpcomingOf(up, evs, clock) ==
  /\ \A k \in 1..Len(up) : up[k] \in Qualifying(evs, clock)
  /\ \A k, l \in 1..Len(up) : k # l => up[k] # up[l]
  /\ \A k, l \in 1..Len(up) :
       k < l => DateParse(up[k].date).t <= DateParse(up[l].date).t
  /\ Len(up) <= 10
  /\ Cardinality(Qualifying(evs, clock)) <= 10
       => Len(up) = Cardinality(Qualifying(evs, clock))
  /\ Cardinality(Qualifying(evs, clock)) > 10 => Len(up) = 10
  /\ \A e \in Qualifying(evs, clock) :
       (\A k \in 1..Len(up) : up[k] # e) =>
         \A k \in 1..Len(up) : DateParse(up[k].date).t <= DateParse(e.date).t

(* C20: every render of the upcoming events shows the events whose date d  *)
(* satisfies now <= d <= now + 30 days, sorted by date ascending, at most  *)
(* 10 of them, and the 10 earliest when more than 10 qualify.              *)
C20_UpcomingSortedRange ==
  [][shown' # shown => IsUpcomingOf(upcomingEvents', events', now')]_vars

(* a render has shown 10 events while more than 10 events qualified, after *)
(* the run that stored them                                                *)
C20_Witness ==
  /\ phase = "done"
  /\ Len(upcomingEvents) = 10
  /\ Cardinality(Qualifying(events, now)) > 10
  /\ IsUpcomingOf(upcomingEvents, events, now)

(* C21: a step of navigateMonth moves the displayed month (the local month *)
(* and year of currentDate) to the month immediately after or immediately  *)
(* before it, for every day of the month of currentDate.                   *)
C21_NavigateByOneMonth ==
  [][currentDate' # currentDate =>
       \/ MonthNumber(LocalFields(tz, currentDate'))
            = MonthNumber(LocalFields(tz, currentDate)) + 1
       \/ MonthNumber(LocalFields(tz, currentDate'))
            = MonthNumber(LocalFields(tz, currentDate)) - 1]_vars

-----------------------------------------------------------------------------
(* The month grid (lines 229-240 and 254-300).                             *)

(* date.toISOString().split('T')[0]: the date part of an ISO string *)
DatePart(s) == DateOnlyString(s.y, s.mo, s.d)

(* event.date.startsWith(dateStr), dateStr being a date part; a string     *)
(* that is no date does not start with one                                 *)
DateStartsWith(s, dateStr) == s.fmt # "bad" /\ DatePart(s) = dateStr

(* getDaysInMonth (lines 229-231): day 0 of the next month *)
DayZeroOfNextMonth(z, f) == DateLocal(z, f.y, f.m + 1, Num(0))

getDaysInMonth(z, date) == LocalFields(z, DayZeroOfNextMonth(z, LocalFields(z, date))).d

(* getEventsForDate (lines 237-240) *)
EventsStartingWith(evs, dateStr) ==
  SelectSeq(evs, LAMBDA event : DateStartsWith(event.date, dateStr))

getEventsForDate(evs, date) == EventsStartingWith(evs, DatePart(toISOString(date)))

(* the date of the cell of a day of the displayed month (line 265) *)
CellOfFields(z, f, day) == DateLocal(z, f.y, f.m, Num(day))

CellDate(z, date, day) == CellOfFields(z, LocalFields(z, date), day)

(* the events in the cell of a day (line 266) *)
dayEvents(day) == getEventsForDate(events, CellDate(tz, currentDate, day))

(* The grid of a calendar whose loadData has succeeded, in the zones above *)
(* and in a zone on UTC in winter that observes daylight saving time.      *)

LabelMar30 == <<"M","a","r"," ","3","0">>

LabelMar31 == <<"M","a","r"," ","3","1">>

GridZones == Zones \cup {ZoneLondon}

GridSchedules ==
  { <<PlantingSchedule("s1", "p1", "6", <<LabelMar15, LabelMar31>>,
                       <<LabelMar30, LabelApr1>>, <<LabelJan1, LabelDec31>>)>>,
    <<PlantingSchedule("s1", "p1", "6", <<LabelJan1, LabelFeb30>>, Absent, Absent),
      PlantingSchedule("s2", "p2", "6", Absent, <<LabelMar15, LabelApr1>>, Absent)>> }

GridGardenPlants ==
  { <<>>,
    <<GardenPlant("gp1", "g1", "p1", DateOnlyString(2025, 3, 30))>>,
    <<GardenPlant("gp1", "g2", "p2", DateOnlyString(2025, 1, 31))>> }

InitGrid ==
  /\ gardens = <<GardenNorth, Garden("g2", "South", "6")>>
  /\ plants \in LoadedPlants
  /\ schedules \in GridSchedules
  /\ gardenPlants \in GridGardenPlants
  /\ selectedGarden = "all"
  /\ currentDate \in MountDates
  /\ events = <<>>
  /\ phase = "idle"
  /\ tz \in GridZones
  /\ now = currentDate
  /\ upcomingEvents = <<>>
  /\ loadPc = "returned"
  /\ OthersUnmounted

NextGrid ==
  \/ GenerateEvents
  \/ \E value \in SelectItems : OnValueChange(value)
  \/ \E direction \in {"prev", "next"} : navigateMonth(direction)

SpecGrid == InitGrid /\ [][NextGrid]_vars

InCell(e, day) == \E k \in 1..Len(dayEvents(day)) : dayEvents(day)[k] = e

InDisplayedMonth(f) ==
  MonthNumber(f) = MonthNumber(LocalFields(tz, currentDate))

OnlyInCellOf(e, f) ==
  InDisplayedMonth(f) =>
    \A day \in 1..getDaysInMonth(tz, currentDate) : InCell(e, day) <=> day = f.d

(* C22: every schedule-window event whose date lies in the displayed month *)
(* is among the events of the cell of its own day of the month and of no   *)
(* other cell of the grid, in every time zone.                             *)
C22_WindowEventInOwnCell ==
  \A i \in 1..Len(events) :
    events[i].type \in WindowTypes => OnlyInCellOf(events[i], LocalFieldsOf(events[i].date))

-----------------------------------------------------------------------------
(* loadData alone: every call it awaits settles, by resolving or rejecting *)

SpecLoad == InitCalendar /\ [][LoadData]_vars /\ WF_vars(LoadData)

(* the collection that the setter after a call of loadData sets *)
Collection(pc) ==
  CASE pc = "gardens" -> gardens
    [] pc = "plants" -> plants
    [] pc = "schedules" -> schedules
    [] pc = "gardenPlants" -> gardenPlants
    [] OTHER -> <<>>

(* the calls that loadData has not yet got a result of *)
Awaited(k) == \E i \in 1..k : LoadCalls[i] = loadPc

Remaining == {LoadCalls[k] : k \in {j \in 1..Len(LoadCalls) : Awaited(j)}}

(* a step taken while loading changes at most the collection of the        *)
(* awaited call, and none when it ends the load before the last call       *)
LoadStepKeeps ==
  /\ \A pc \in {"gardens", "plants", "schedules", "gardenPlants"} :
       pc # loadPc => Collection(pc)' = Collection(pc)
  /\ (phase' # "loading" /\ loadPc # "gardenPlants") => Collection(loadPc)' = Collection(loadPc)

(* C23: loading, true from the start of loadData, becomes false whether    *)
(* the calls resolve or one rejects; while loadData awaits a call the      *)
(* collections of that call and of the later calls still have their        *)
(* previous values, and a step changes only the collection of the awaited  *)
(* call, none when a call before the last ends the load.                   *)
C23_LoadingEnds ==
  /\ (phase = "loading") ~> (phase = "idle" /\ loadPc = "returned")
  /\ [](phase = "loading" => \A pc \in Remaining : Collection(pc) = <<>>)
  /\ [][phase = "loading" => LoadStepKeeps]_vars

(* the plants call rejected after the gardens call had resolved *)
C23_Witness ==
  /\ phase = "idle"
  /\ loadPc = "returned"
  /\ Len(gardens) > 0
  /\ plants = <<>>
  /\ schedules = <<>>

-----------------------------------------------------------------------------
(* The gardens page (src/unnamed/part_002).  A garden of the backend is    *)
(* the number of its creation; dbGardens is how many there are and         *)
(* dbRows[g] the number of gardenPlants rows of garden g.                  *)

MaxGardens == 2

MaxRows == 1

(* the invocations of loadGardens in one session *)
MaxLoads == 3

growZoneOf(g) == IF g % 2 = 1 THEN "6" ELSE "7"

(* gardens.list with orderBy createdAt desc, of n gardens *)
GardensDesc(n) == [k \in 1..n |-> n + 1 - k]

(* an invocation of loadGardens (lines 44-78): the call it awaits, the     *)
(* gardens the list call returned and the outcome of the count of each     *)
NewLoad == [pc |-> "me", gardensData |-> <<>>, counts |-> <<>>]

(* an invocation that has returned and is not the most recent one *)
DoneLoad == [pc |-> "done", gardensData |-> <<>>, counts |-> <<>>]

Returned(load) == load.pc \in {"stored", "failed", "done"}

(* the invocations, of which only the most recent keeps what it returned *)
Older(loads) == [k \in 1..Len(loads) |-> IF Returned(loads[k]) THEN DoneLoad ELSE loads[k]]

Settled(i, load) ==
  [gardenLoads EXCEPT ![i] = IF Returned(load) /\ i < Len(gardenLoads) THEN DoneLoad ELSE load]

(* lines 54-66: the count of one garden, 0 when its query rejects *)
CountOf(g, failed) ==
  [plantCount |-> IF g \in failed THEN 0 ELSE dbRows[g], failed |-> g \in failed]

(* { ...garden, plantCount } *)
WithCount(g, count) == [id |-> g, growZone |-> growZoneOf(g), plantCount |-> count.plantCount]

gardensWithCounts(load) ==
  [k \in 1..Len(load.gardensData) |-> WithCount(load.gardensData[k], load.counts[k])]

(* catch and finally of loadGardens (lines 68-77) *)
LoadGardensRejected(i) ==
  /\ pageToasts' = pageToasts + 1
  /\ pageLoading' = FALSE
  /\ gardenLoads' = Settled(i, [gardenLoads[i] EXCEPT !.pc = "failed"])
  /\ UNCHANGED <<pageGardens, pageGardenPlants, selectedGardenForPlant, dbGardens, dbRows, plantLoads>>

LoadGardensGoesOn(i, load) ==
  /\ gardenLoads' = [gardenLoads EXCEPT ![i] = load]
  /\ UNCHANGED <<pageGardens, pageGardenPlants, pageLoading, selectedGardenForPlant, pageToasts, dbGardens, dbRows, plantLoads>>

(* await blink.auth.me() (line 46) settles *)
MeSettles(i) ==
  /\ gardenLoads[i].pc = "me"
  /\ \/ LoadGardensGoesOn(i, [gardenLoads[i] EXCEPT !.pc = "gardens"])
     \/ LoadGardensRejected(i)
  /\ UNCHANGED besidesPage

(* await blink.db.gardens.list (lines 47-50) settles *)
GardensListSettles(i) ==
  /\ gardenLoads[i].pc = "gardens"
  /\ \/ LoadGardensGoesOn(i, [gardenLoads[i] EXCEPT !.pc = "counts", !.gardensData = GardensDesc(dbGardens)])
     \/ LoadGardensRejected(i)
  /\ UNCHANGED besidesPage

(* the count of every garden has settled, rejected for the gardens of     *)
(* failed, and a rejected count propagates to loadGardens                  *)
CountsPropagate(i, failed) ==
  IF failed = {}
  THEN LoadGardensGoesOn(i, [gardenLoads[i] EXCEPT !.pc = "counted", !.counts = [k \in 1..Len(gardenLoads[i].gardensData) |-> CountOf(gardenLoads[i].gardensData[k], failed)]])
  ELSE LoadGardensRejected(i)

(* the count of every garden has settled (lines 53-66), rejected for the   *)
(* gardens of failed: Promise.all resolves                                 *)
CountsCaught(i, failed) ==
  LoadGardensGoesOn(i, [gardenLoads[i] EXCEPT !.pc = "counted", !.counts = [k \in 1..Len(gardenLoads[i].gardensData) |-> CountOf(gardenLoads[i].gardensData[k], failed)]])

CountsSettle(i) ==
  /\ gardenLoads[i].pc = "counts"
  /\ \E failed \in SUBSET {gardenLoads[i].gardensData[k] : k \in 1..Len(gardenLoads[i].gardensData)} :
       CountsCaught(i, failed)
  /\ UNCHANGED besidesPage

(* setGardens(gardensWithCounts) and the finally (lines 68 and 75-77) *)
StoreGardens(i) ==
  /\ gardenLoads[i].pc = "counted"
  /\ pageGardens' = gardensWithCounts(gardenLoads[i])
  /\ pageLoading' = FALSE
  /\ gardenLoads' = Settled(i, [gardenLoads[i] EXCEPT !.pc = "stored"])
  /\ UNCHANGED <<pageGardenPlants, selectedGardenForPlant, pageToasts, dbGardens, dbRows, plantLoads>>
  /\ UNCHANGED besidesPage

(* loadGardenPlants (lines 80-91): plantLoads holds the call that each     *)
(* invocation awaits; the rows of the user are counted, not listed         *)
RECURSIVE RowsOfGardens(_)
RowsOfGardens(n) == IF n = 0 THEN 0 ELSE dbRows[n] + RowsOfGardens(n - 1)

WithoutLoad(j) == SubSeq(plantLoads, 1, j - 1) \o SubSeq(plantLoads, j + 1, Len(plantLoads))

PlantsMeSettles(j) ==
  /\ plantLoads[j] = "me"
  /\ \/ plantLoads' = [plantLoads EXCEPT ![j] = "list"]
     \/ plantLoads' = WithoutLoad(j)
  /\ UNCHANGED <<pageGardens, pageGardenPlants, pageLoading, selectedGardenForPlant, pageToasts, dbGardens, dbRows, gardenLoads>>
  /\ UNCHANGED besidesPage

PlantsListSettles(j) ==
  /\ plantLoads[j] = "list"
  /\ plantLoads' = WithoutLoad(j)
  /\ \/ pageGardenPlants' = RowsOfGardens(dbGardens)
     \/ pageGardenPlants' = pageGardenPlants
  /\ UNCHANGED <<pageGardens, pageLoading, selectedGardenForPlant, pageToasts, dbGardens, dbRows, gardenLoads>>
  /\ UNCHANGED besidesPage

(* handleAddPlant (lines 98-103), from a card of the rendered gardens *)
handleAddPlant(k) ==
  /\ ~pageLoading
  /\ selectedGardenForPlant = NoGarden
  /\ selectedGardenForPlant' = [id |-> pageGardens[k].id, zone |-> pageGardens[k].growZone]
  /\ UNCHANGED <<pageGardens, pageGardenPlants, pageLoading, pageToasts, dbGardens, dbRows, gardenLoads, plantLoads>>
  /\ UNCHANGED besidesPage

(* onOpenChange of the AddPlantModal (line 341) with open false *)
OnOpenChangeAddPlant ==
  /\ selectedGardenForPlant # NoGarden
  /\ selectedGardenForPlant' = NoGarden
  /\ UNCHANGED <<pageGardens, pageGardenPlants, pageLoading, pageToasts, dbGardens, dbRows, gardenLoads, plantLoads>>
  /\ UNCHANGED besidesPage

(* handleGardenCreated (lines 113-115), called by the CreateGardenModal    *)
(* after its gardens.create has resolved                                   *)
handleGardenCreated ==
  /\ ~pageLoading
  /\ dbGardens < MaxGardens
  /\ Len(gardenLoads) < MaxLoads
  /\ dbGardens' = dbGardens + 1
  /\ gardenLoads' = Append(Older(gardenLoads), NewLoad)
  /\ UNCHANGED <<pageGardens, pageGardenPlants, pageLoading, selectedGardenForPlant, pageToasts, dbRows, plantLoads>>
  /\ UNCHANGED besidesPage

(* handlePlantAdded (lines 117-121), called by the AddPlantModal of the    *)
(* selected garden after its gardenPlants.create has resolved              *)
handlePlantAdded ==
  /\ selectedGardenForPlant # NoGarden
  /\ dbRows[selectedGardenForPlant.id] < MaxRows
  /\ Len(gardenLoads) < MaxLoads
  /\ dbRows' = [dbRows EXCEPT ![selectedGardenForPlant.id] = @ + 1]
  /\ gardenLoads' = Append(Older(gardenLoads), NewLoad)
  /\ plantLoads' = Append(plantLoads, "me")
  /\ selectedGardenForPlant' = NoGarden
  /\ UNCHANGED <<pageGardens, pageGardenPlants, pageLoading, pageToasts, dbGardens>>
  /\ UNCHANGED besidesPage

CalendarUnmounted ==
  /\ gardens = <<>>
  /\ plants = <<>>
  /\ schedules = <<>>
  /\ gardenPlants = <<>>
  /\ selectedGarden = "all"
  /\ currentDate = DateParse(IsoString(2025, 3, 2, 0))
  /\ events = <<>>
  /\ phase = "loading"
  /\ tz = ZoneUTC
  /\ now = currentDate
  /\ upcomingEvents = <<>>
  /\ loadPc = "me"

(* the mount of the page: the effect of lines 93-96 has started both loads *)
InitPage ==
  /\ pageGardens = <<>>
  /\ pageGardenPlants = 0
  /\ pageLoading = TRUE
  /\ selectedGardenForPlant = NoGarden
  /\ pageToasts = 0
  /\ dbGardens \in 0..1
  /\ dbRows \in {[g \in 1..MaxGardens |-> 0],
                 [g \in 1..MaxGardens |-> IF g <= dbGardens THEN 1 ELSE 0]}
  /\ gardenLoads = <<NewLoad>>
  /\ plantLoads = <<"me">>
  /\ CalendarUnmounted
  /\ SettingsUnmounted
  /\ DashboardUnmounted
  /\ CreateModalUnmounted
  /\ AddModalUnmounted

NextPage ==
  \/ \E i \in 1..Len(gardenLoads) :
       MeSettles(i) \/ GardensListSettles(i) \/ CountsSettle(i) \/ StoreGardens(i)
  \/ \E j \in 1..Len(plantLoads) : PlantsMeSettles(j) \/ PlantsListSettles(j)
  \/ \E k \in 1..Len(pageGardens) : handleAddPlant(k)
  \/ OnOpenChangeAddPlant
  \/ handleGardenCreated
  \/ handlePlantAdded

SpecPage == InitPage /\ [][NextPage]_vars

LastLoad == gardenLoads[Len(gardenLoads)]

NoLoadInFlight == \A i \in 1..Len(gardenLoads) : Returned(gardenLoads[i])

(* C24: once no invocation of loadGardens is in flight, and the most       *)
(* recently started one has stored its gardens, the gardens state is what  *)
(* that invocation stored, plantCount included.                            *)
C24_NewestLoadWins ==
  (NoLoadInFlight /\ LastLoad.pc = "stored") => pageGardens = gardensWithCounts(LastLoad)

(* the counts of invocation i settle in this step *)
CountsSettleIn(i) == gardenLoads[i].pc = "counts" /\ gardenLoads'[i] # gardenLoads[i]

(* the outcome of every count: 0 where the query failed, the rows of the   *)
(* garden otherwise                                                        *)
CountsAsQueried(load) ==
  /\ Len(load.counts) = Len(load.gardensData)
  /\ \A k \in 1..Len(load.counts) :
       load.counts[k].plantCount = IF load.counts[k].failed THEN 0 ELSE dbRows[load.gardensData[k]]

(* invocation i stores its gardens in this step *)
StoresIn(i) == gardenLoads[i].pc = "counted" /\ gardenLoads'[i] # gardenLoads[i]

StoredAsCounted(load, stored) ==
  /\ Len(stored) = Len(load.gardensData)
  /\ \A k \in 1..Len(stored) :
       /\ stored[k].id = load.gardensData[k]
       /\ stored[k].plantCount = load.counts[k].plantCount

(* C25: when the counts of an invocation of loadGardens settle, some of    *)
(* them failed or none, the invocation goes on with a count for every      *)
(* garden returned by the gardens query, 0 for the gardens whose count     *)
(* failed and the number of rows for the others, and stores every one of   *)
(* these gardens with that plantCount; neither step shows an error toast.  *)
C25_FailedCountIsZero ==
  [][\A i \in 1..Len(gardenLoads) :
       /\ CountsSettleIn(i) =>
            /\ gardenLoads'[i].pc = "counted"
            /\ CountsAsQueried(gardenLoads'[i])
            /\ pageToasts' = pageToasts
       /\ StoresIn(i) =>
            /\ StoredAsCounted(gardenLoads[i], pageGardens')
            /\ pageToasts' = pageToasts]_vars

(* stored: two gardens, the count of one failed, the other has its row *)
C25_Witness ==
  /\ LastLoad.pc = "stored"
  /\ pageGardens = gardensWithCounts(LastLoad)
  /\ \E k \in 1..Len(LastLoad.counts) : LastLoad.counts[k].failed /\ dbRows[LastLoad.gardensData[k]] > 0
  /\ \E k \in 1..Len(pageGardens) : pageGardens[k].plantCount > 0
  /\ pageToasts = 0

-----------------------------------------------------------------------------
(* The settings page (src/unnamed/part_004, lines 353-482).  Of the form   *)
(* and of a profile the display name is modelled; the other fields are     *)
(* copied alongside it.                                                    *)

(* the userProfiles.create and update calls of one session *)
MaxSaves == 3

Names == {"", "Ann", "Bea"}

(* a || b on strings *)
Or(a, b) == IF a # "" THEN a ELSE b

(* profile_${user.id} *)
ProfileId(u) == "profile_" \o u.id

(* loadUserData (lines 373-424): await blink.auth.me() settles; a          *)
(* rejection goes to the outer catch and the finally                       *)
LoadUserMe ==
  /\ loadUser = "me"
  /\ \/ /\ user' = dbUser
        /\ loadUser' = "profiles"
        /\ UNCHANGED settingsLoading
     \/ /\ loadUser' = "returned"
        /\ settingsLoading' = FALSE
        /\ UNCHANGED user
  /\ UNCHANGED <<profile, saving, formData, save, dbUser, dbProfile, creates, updates>>
  /\ UNCHANGED besidesSettings

(* lines 386-400: a profile was found *)
ProfileFound ==
  /\ profile' = dbProfile
  /\ formData' = [displayName |-> Or(dbProfile.displayName, user.displayName)]

(* lines 402-405 and 410-413: no profile, or the list call rejected *)
ProfileNotLoaded ==
  /\ profile' = profile
  /\ formData' = [formData EXCEPT !.displayName = user.displayName]

(* await blink.db.userProfiles.list (lines 380-383) settles; then finally *)
LoadUserProfiles ==
  /\ loadUser = "profiles"
  /\ \/ IF dbProfile # NoProfile THEN ProfileFound ELSE ProfileNotLoaded
     \/ ProfileNotLoaded
  /\ loadUser' = "returned"
  /\ settingsLoading' = FALSE
  /\ UNCHANGED <<user, saving, save, dbUser, dbProfile, creates, updates>>
  /\ UNCHANGED besidesSettings

(* onChange of the display name input (line 609) *)
OnChangeDisplayName(value) ==
  /\ ~settingsLoading
  /\ formData' = [formData EXCEPT !.displayName = value]
  /\ UNCHANGED <<user, profile, settingsLoading, saving, loadUser, save, dbUser, dbProfile, creates, updates>>
  /\ UNCHANGED besidesSettings

(* lines 454-462: userProfiles.update when the profile state is set,       *)
(* userProfiles.create otherwise                                           *)
IssueWrite(name) ==
  IF profile # NoProfile
  THEN /\ updates' = updates + 1
       /\ creates' = creates
       /\ save' = [pc |-> "update", displayName |-> name]
  ELSE /\ creates' = creates + 1
       /\ updates' = updates
       /\ save' = [pc |-> "create", displayName |-> name]

(* catch and finally of handleSave (lines 472-481) *)
SaveRejected ==
  /\ saving' = FALSE
  /\ save' = [pc |-> "idle", displayName |-> ""]
  /\ UNCHANGED <<user, dbUser, dbProfile, creates, updates>>

(* handleSave (lines 430-444), from the Save button (line 788), up to its  *)
(* first await                                                             *)
handleSave ==
  /\ ~settingsLoading
  /\ ~saving
  /\ save.pc = "idle"
  /\ creates + updates < MaxSaves
  /\ IF user = NoUser
     THEN UNCHANGED <<saving, save, creates, updates>>
     ELSE /\ saving' = TRUE
          /\ IF formData.displayName # user.displayName
             THEN /\ save' = [pc |-> "updateMe", displayName |-> formData.displayName]
                  /\ UNCHANGED <<creates, updates>>
             ELSE IssueWrite(formData.displayName)
  /\ UNCHANGED <<user, profile, settingsLoading, formData, loadUser, dbUser, dbProfile>>
  /\ UNCHANGED besidesSettings

(* await blink.auth.updateMe (lines 437-439) settles *)
UpdateMeSettles ==
  /\ save.pc = "updateMe"
  /\ \/ /\ dbUser' = [dbUser EXCEPT !.displayName = save.displayName]
        /\ IssueWrite(save.displayName)
        /\ UNCHANGED <<user, saving, dbProfile>>
     \/ SaveRejected
  /\ UNCHANGED <<profile, settingsLoading, formData, loadUser>>
  /\ UNCHANGED besidesSettings

(* the profile of the backend after the awaited write *)
Written ==
  [id |-> IF dbProfile # NoProfile THEN dbProfile.id ELSE ProfileId(user),
   displayName |-> save.displayName]

(* await userProfiles.update or create (lines 455-461) settles; then the   *)
(* toast and blink.auth.me() (lines 464-469)                               *)
WriteSettles ==
  /\ save.pc \in {"update", "create"}
  /\ \/ /\ dbProfile' = Written
        /\ save' = [save EXCEPT !.pc = "me"]
        /\ UNCHANGED <<user, saving, dbUser, creates, updates>>
     \/ SaveRejected
  /\ UNCHANGED <<profile, settingsLoading, formData, loadUser>>
  /\ UNCHANGED besidesSettings

(* await blink.auth.me() (line 469) settles; setUser and the finally *)
SaveMeSettles ==
  /\ save.pc = "me"
  /\ \/ /\ user' = dbUser
        /\ saving' = FALSE
        /\ save' = [pc |-> "idle", displayName |-> ""]
        /\ UNCHANGED <<dbUser, dbProfile, creates, updates>>
     \/ SaveRejected
  /\ UNCHANGED <<profile, settingsLoading, formData, loadUser>>
  /\ UNCHANGED besidesSettings

(* the mount of the settings page: the effect has started loadUserData *)
InitSettings ==
  /\ user = NoUser
  /\ profile = NoProfile
  /\ settingsLoading = TRUE
  /\ saving = FALSE
  /\ formData = [displayName |-> ""]
  /\ loadUser = "me"
  /\ save = [pc |-> "idle", displayName |-> ""]
  /\ dbUser \in {[id |-> "u1", displayName |-> n] : n \in {"", "Ann"}}
  /\ dbProfile \in {NoProfile, [id |-> "profile_u1", displayName |-> "Ann"]}
  /\ creates = 0
  /\ updates = 0
  /\ CalendarUnmounted
  /\ PageUnmounted
  /\ DashboardUnmounted
  /\ CreateModalUnmounted
  /\ AddModalUnmounted

NextSettings ==
  \/ LoadUserMe
  \/ LoadUserProfiles
  \/ \E value \in Names : OnChangeDisplayName(value)
  \/ handleSave
  \/ UpdateMeSettles
  \/ WriteSettles
  \/ SaveMeSettles

SpecSettings == InitSettings /\ [][NextSettings]_vars

(* C26: in one session userProfiles.create is issued at most once; after   *)
(* the first create every save issues userProfiles.update.                 *)
C26_CreateAtMostOnce == creates <= 1

-----------------------------------------------------------------------------
(* The dashboard (src/unnamed/part_005, lines 33-73).  The backend client  *)
(* calls a listener with the current auth state when the listener          *)
(* subscribes, as the listeners of App and Header (src/unnamed/part_000    *)
(* and part_001, subscribed once) rely on, and with every later state.     *)

(* the changes of the auth state in one session *)
MaxAuthChanges == 2

AuthStates == [user : {"null", "u1", "u2"}, isLoading : BOOLEAN]

(* loadDashboardData (lines 39-48) of the closure whose user is u, up to   *)
(* its first await: it returns at line 40 when that user has no id         *)
loadDashboardData(u) ==
  IF u = "null"
  THEN UNCHANGED <<dashLoads, ranWith>>
  ELSE /\ dashLoads' = Append(dashLoads, [pc |-> "gardens", userId |-> u])
       /\ ranWith' = u

(* the listener of lines 66-71, subscribed when the component's user was u *)
Listener(state, u) ==
  /\ dashUser' = state.user
  /\ IF state.user # "null" /\ ~state.isLoading
     THEN loadDashboardData(u)
     ELSE UNCHANGED <<dashLoads, ranWith>>

(* the auth state changes and the client calls the subscribed listener *)
AuthStateChanged ==
  /\ authChanges < MaxAuthChanges
  /\ authChanges' = authChanges + 1
  /\ authState' \in AuthStates \ {authState}
  /\ Listener(authState', listener)
  /\ UNCHANGED <<dashLoading, dashGardens, upcomingTasks, listener, replay>>
  /\ UNCHANGED besidesDashboard

(* the client calls the newly subscribed listener with the current state *)
CurrentStateReported ==
  /\ replay
  /\ replay' = FALSE
  /\ Listener(authState, listener)
  /\ UNCHANGED <<authState, authChanges, dashLoading, dashGardens, upcomingTasks, listener>>
  /\ UNCHANGED besidesDashboard

(* an effect with an empty dependency list: the listener of the mount      *)
(* stays subscribed                                                        *)
EffectRunsOnce ==
  /\ listener # dashUser
  /\ UNCHANGED vars

(* the effect of lines 65-73 runs again after a render in which user?.id,  *)
(* and with it loadDashboardData, has changed: it unsubscribes the old     *)
(* listener and subscribes the new one                                     *)
EffectRunsAgain ==
  /\ listener # dashUser
  /\ listener' = dashUser
  /\ replay' = TRUE
  /\ UNCHANGED <<authState, authChanges, dashUser, dashLoading, dashGardens, upcomingTasks, dashLoads, ranWith>>
  /\ UNCHANGED besidesDashboard

WithoutDashLoad(i) == SubSeq(dashLoads, 1, i - 1) \o SubSeq(dashLoads, i + 1, Len(dashLoads))

(* what a list call of user u resolves with; the code stores [] for null *)
ListResults(u) == {<<>>, <<[id |-> "1", userId |-> u]>>}

(* await blink.db.gardens.list (lines 44-49) settles; a rejection goes to  *)
(* the catch and the finally                                               *)
DashGardensSettle(i) ==
  /\ dashLoads[i].pc = "gardens"
  /\ \/ /\ dashGardens' \in ListResults(dashLoads[i].userId)
        /\ dashLoads' = [dashLoads EXCEPT ![i].pc = "tasks"]
        /\ UNCHANGED dashLoading
     \/ /\ dashLoading' = FALSE
        /\ dashLoads' = WithoutDashLoad(i)
        /\ UNCHANGED dashGardens
  /\ UNCHANGED <<authState, authChanges, dashUser, upcomingTasks, listener, replay, ranWith>>
  /\ UNCHANGED besidesDashboard

(* await blink.db.plantingTasks.list (lines 52-57) settles; then finally *)
DashTasksSettle(i) ==
  /\ dashLoads[i].pc = "tasks"
  /\ \/ upcomingTasks' \in ListResults(dashLoads[i].userId)
     \/ UNCHANGED upcomingTasks
  /\ dashLoading' = FALSE
  /\ dashLoads' = WithoutDashLoad(i)
  /\ UNCHANGED <<authState, authChanges, dashUser, dashGardens, listener, replay, ranWith>>
  /\ UNCHANGED besidesDashboard

DashLoadSettles == \E i \in 1..Len(dashLoads) : DashGardensSettle(i) \/ DashTasksSettle(i)

(* the mount of the dashboard, which App renders for a signed-in user: the *)
(* effect has subscribed the listener of the first render                  *)
InitDashboard ==
  /\ authState \in {[user |-> u, isLoading |-> FALSE] : u \in {"u1", "u2"}}
  /\ authChanges = 0
  /\ dashUser = "null"
  /\ dashLoading = TRUE
  /\ dashGardens = <<>>
  /\ upcomingTasks = <<>>
  /\ listener = "null"
  /\ replay = TRUE
  /\ dashLoads = <<>>
  /\ ranWith = "null"
  /\ CalendarUnmounted
  /\ PageUnmounted
  /\ SettingsUnmounted
  /\ CreateModalUnmounted
  /\ AddModalUnmounted

NextDashboard ==
  \/ AuthStateChanged
  \/ CurrentStateReported
  \/ EffectRunsAgain
  \/ DashLoadSettles

(* the client reports to a new listener, React runs the effect after the   *)
(* render, and every awaited list call settles                             *)
SpecDashboard ==
  /\ InitDashboard
  /\ [][NextDashboard]_vars
  /\ WF_vars(CurrentStateReported)
  /\ WF_vars(EffectRunsAgain)
  /\ WF_vars(DashLoadSettles)

SignedInAs(u) == authState = [user |-> u, isLoading |-> FALSE]

(* C27: while the auth state is a signed-in user with isLoading false,     *)
(* loadDashboardData eventually runs with the id of that user and loading  *)
(* eventually is false, whether the list calls resolve or reject.          *)
C27_DashboardLeavesLoading ==
  \A u \in {"u1", "u2"} :
    SignedInAs(u) ~> ((ranWith = u /\ ~dashLoading) \/ ~SignedInAs(u))

(* the first call of the listener returned at line 40; a later load ran    *)
(* with the user's id and ended the loading with a rejected list call      *)
C27_Witness ==
  /\ SignedInAs("u1")
  /\ authChanges = 0
  /\ ranWith = "u1"
  /\ ~dashLoading
  /\ dashGardens = <<>>
  /\ dashLoads = <<>>

-----------------------------------------------------------------------------
(* The CreateGardenModal (src/src/components/gardens/CreateGardenModal.tsx, *)
(* lines 28-82 and 144-235).  The description field is copied like size.    *)

(* the runs of handleSubmit in one session; each shows one toast *)
MaxSubmits == 3

FieldValues == {"", "x"}

(* the Dialog's onOpenChange={setOpen} (line 144) *)
SetOpen(value) ==
  /\ cgOpen # value
  /\ cgOpen' = value
  /\ UNCHANGED <<cgLoading, cgFormData, submit, gardenCreates, created, cgToasts>>
  /\ UNCHANGED besidesCreateModal

(* the onChange handlers of the fields (lines 162-221), in the open dialog *)
OnChangeField(field, value) ==
  /\ cgOpen
  /\ cgFormData[field] # value
  /\ cgFormData' = [cgFormData EXCEPT ![field] = value]
  /\ UNCHANGED <<cgOpen, cgLoading, submit, gardenCreates, created, cgToasts>>
  /\ UNCHANGED besidesCreateModal

(* the test of line 42 without its growZone part *)
MissingWithoutZone(data) == data.name = "" \/ data.location = ""

(* !formData.name || !formData.location || !formData.growZone (line 42) *)
Missing(data) == data.name = "" \/ data.location = "" \/ data.growZone = ""

toast(title) == cgToasts' = Append(cgToasts, title)

(* handleSubmit (lines 40-53), from the form of the open dialog, whose     *)
(* submit button is disabled while loading (line 230), up to its first     *)
(* await                                                                   *)
handleSubmit ==
  /\ cgOpen
  /\ ~cgLoading
  /\ submit.pc = "idle"
  /\ Len(cgToasts) < MaxSubmits
  /\ IF Missing(cgFormData)
     THEN /\ toast("Missing Information")
          /\ UNCHANGED <<cgLoading, submit>>
     ELSE /\ cgLoading' = TRUE
          /\ submit' = [pc |-> "me", data |-> cgFormData]
          /\ UNCHANGED cgToasts
  /\ UNCHANGED <<cgOpen, cgFormData, gardenCreates, created>>
  /\ UNCHANGED besidesCreateModal

(* catch and finally of handleSubmit (lines 72-81) *)
SubmitRejected ==
  /\ toast("Error")
  /\ cgLoading' = FALSE
  /\ submit' = NoSubmit
  /\ UNCHANGED <<cgOpen, cgFormData, created>>

(* await blink.auth.me() (line 53) settles; gardens.create is called with  *)
(* the form data of the render of the submit                               *)
SubmitMeSettles ==
  /\ submit.pc = "me"
  /\ \/ /\ gardenCreates' = Append(gardenCreates, submit.data)
        /\ submit' = [submit EXCEPT !.pc = "create"]
        /\ UNCHANGED <<cgOpen, cgLoading, cgFormData, created, cgToasts>>
     \/ /\ SubmitRejected
        /\ UNCHANGED gardenCreates
  /\ UNCHANGED besidesCreateModal

(* await blink.db.gardens.create (lines 54-62) settles; lines 64-71 and    *)
(* the finally when it resolves                                            *)
GardenCreateSettles ==
  /\ submit.pc = "create"
  /\ \/ /\ toast("Garden Created!")
        /\ cgFormData' = EmptyForm
        /\ cgOpen' = FALSE
        /\ created' = created + 1
        /\ cgLoading' = FALSE
        /\ submit' = NoSubmit
     \/ SubmitRejected
  /\ UNCHANGED gardenCreates
  /\ UNCHANGED besidesCreateModal

InitCreateModal ==
  /\ CreateModalUnmounted
  /\ CalendarUnmounted
  /\ PageUnmounted
  /\ SettingsUnmounted
  /\ DashboardUnmounted
  /\ AddModalUnmounted

NextCreateModal ==
  \/ \E value \in BOOLEAN : SetOpen(value)
  \/ \E field \in {"name", "location", "growZone", "size"}, value \in FieldValues : OnChangeField(field, value)
  \/ handleSubmit
  \/ SubmitMeSettles
  \/ GardenCreateSettles

SpecCreateModal == InitCreateModal /\ [][NextCreateModal]_vars

(* the step shows a toast with this title *)
Toasts(title) == cgToasts' = Append(cgToasts, title)

(* C28: gardens.create is issued only with name, location and growZone    *)
(* all non-empty; a submit with one of them empty shows the missing-       *)
(* information toast and changes neither the form data, open nor loading;  *)
(* a success resets the form, closes the dialog, calls onGardenCreated     *)
(* once and ends with loading false; a failure keeps the form data and     *)
(* open, does not call onGardenCreated and ends with loading false.        *)
C28_SubmitGuardedOutcomesDistinct ==
  [][/\ gardenCreates' # gardenCreates =>
          /\ Len(gardenCreates') = Len(gardenCreates) + 1
          /\ gardenCreates'[Len(gardenCreates')].name # ""
          /\ gardenCreates'[Len(gardenCreates')].location # ""
          /\ gardenCreates'[Len(gardenCreates')].growZone # ""
     /\ Toasts("Missing Information") =>
          /\ cgFormData.name = "" \/ cgFormData.location = "" \/ cgFormData.growZone = ""
          /\ UNCHANGED <<cgFormData, cgOpen, cgLoading, gardenCreates, created, submit>>
     /\ (submit.pc = "idle" /\ submit'.pc # "idle") =>
          /\ cgFormData.name # "" /\ cgFormData.location # "" /\ cgFormData.growZone # ""
          /\ cgLoading'
     /\ Toasts("Garden Created!") =>
          /\ cgFormData' = EmptyForm
          /\ ~cgOpen'
          /\ created' = created + 1
          /\ ~cgLoading'
     /\ Toasts("Error") =>
          /\ UNCHANGED <<cgFormData, cgOpen, created>>
          /\ ~cgLoading'
     /\ created' # created => Toasts("Garden Created!")
     /\ (submit.pc # "idle" /\ submit'.pc = "idle") => ~cgLoading']_vars

(* a submit with a field missing, a failed create and a successful one *)
C28_Witness ==
  /\ cgToasts = <<"Missing Information", "Error", "Garden Created!">>
  /\ Len(gardenCreates) = 2
  /\ created = 1
  /\ ~cgOpen
  /\ ~cgLoading
  /\ cgFormData = EmptyForm

-----------------------------------------------------------------------------
(* The AddPlantModal (src/src/components/plants/AddPlantModal.tsx).  The   *)
(* gardens page renders it only while a garden is selected                 *)
(* (src/unnamed/part_002, lines 338-346): closing it unmounts it, and the  *)
(* next one starts from the first render.  A run of addPlantToGarden goes  *)
(* on after its modal is unmounted; its state setters then do nothing.     *)
(* loadSchedules, which sets only the schedules shown on the cards, is     *)
(* left out.                                                               *)

(* the modals mounted in one session *)
MaxMounts == 2

(* the runs of addPlantToGarden in one session *)
MaxAdds == 2

PlantLibrary ==
  << [id |-> "p1", name |-> <<"T","o","m">>, type |-> <<"v","e","g">>],
     [id |-> "p2", name |-> <<"B","a","y">>, type |-> <<"h","e","r","b">>] >>

SearchTerms == {<<>>, <<"b">>, <<"E">>}

(* s.includes(t) *)
includes(s, t) == \E i \in 0..(Len(s) - Len(t)) : SubSeq(s, i + 1, i + Len(t)) = t

(* the filter of lines 90-93 *)
MatchesSearch(plant, term) ==
  \/ includes(toLowerCase(plant.name), toLowerCase(term))
  \/ includes(toLowerCase(plant.type), toLowerCase(term))

filteredPlants == SelectSeq(apPlants, LAMBDA plant : MatchesSearch(plant, searchTerm))

(* handleAddPlant of the page mounts a modal for a garden; its effect      *)
(* (lines 83-88) starts loadPlants, which sets loading (line 56)           *)
MountAddPlantModal(garden) ==
  /\ ~apOpen
  /\ apInstance < MaxMounts
  /\ apOpen' = TRUE
  /\ apGardenId' = garden
  /\ apInstance' = apInstance + 1
  /\ apPlants' = <<>>
  /\ apLoading' = TRUE
  /\ searchTerm' = <<>>
  /\ selectedPlant' = NoPlant
  /\ addingPlant' = FALSE
  /\ plantsLoad' = "list"
  /\ UNCHANGED <<adds, plantCreates, plantAdded, addToasts>>
  /\ UNCHANGED besidesAddModal

(* the page sets its selected garden to null: the modal is unmounted *)
Unmounted ==
  /\ apOpen' = FALSE
  /\ apPlants' = <<>>
  /\ apLoading' = FALSE
  /\ searchTerm' = <<>>
  /\ selectedPlant' = NoPlant
  /\ addingPlant' = FALSE
  /\ plantsLoad' = "idle"
  /\ UNCHANGED <<apGardenId, apInstance>>

(* onOpenChange(false): Cancel (line 226), Escape or a click outside *)
OnOpenChangeFalse ==
  /\ apOpen
  /\ Unmounted
  /\ UNCHANGED <<adds, plantCreates, plantAdded, addToasts>>
  /\ UNCHANGED besidesAddModal

(* await blink.db.plants.list() of loadPlants (lines 55-70) settles *)
PlantsListSettlesInModal ==
  /\ plantsLoad = "list"
  /\ plantsLoad' = "idle"
  /\ apPlants' \in {apPlants, PlantLibrary}
  /\ apLoading' = FALSE
  /\ UNCHANGED <<apOpen, apGardenId, apInstance, searchTerm, selectedPlant, addingPlant, adds, plantCreates, plantAdded, addToasts>>
  /\ UNCHANGED besidesAddModal

(* onChange of the search input (line 152) *)
OnChangeSearch(term) ==
  /\ apOpen
  /\ searchTerm # term
  /\ searchTerm' = term
  /\ UNCHANGED <<apOpen, apGardenId, apInstance, apPlants, apLoading, selectedPlant, addingPlant, plantsLoad, adds, plantCreates, plantAdded, addToasts>>
  /\ UNCHANGED besidesAddModal

(* onClick of the card of a listed plant (line 177) *)
OnClickCard(plant) ==
  /\ apOpen
  /\ ~apLoading
  /\ selectedPlant' = IF selectedPlant.id = plant.id THEN NoPlant ELSE plant
  /\ UNCHANGED <<apOpen, apGardenId, apInstance, apPlants, apLoading, searchTerm, addingPlant, plantsLoad, adds, plantCreates, plantAdded, addToasts>>
  /\ UNCHANGED besidesAddModal

(* a button that is not disabled while a plant is being added *)
AddButtonEnabledWhileAdding == selectedPlant # NoPlant

(* disabled={!selectedPlant || addingPlant} (line 231) *)
AddButtonEnabled == selectedPlant # NoPlant /\ ~addingPlant

(* addPlantToGarden (lines 99-104), from the Add button, up to its first   *)
(* await: the run keeps the gardenId and the selectedPlant of its render   *)
addPlantToGarden ==
  /\ apOpen
  /\ AddButtonEnabled
  /\ addToasts.added + addToasts.failed + Len(adds) < MaxAdds
  /\ IF selectedPlant = NoPlant
     THEN UNCHANGED <<addingPlant, adds>>
     ELSE /\ addingPlant' = TRUE
          /\ adds' = Append(adds, [pc |-> "me", instance |-> apInstance, gardenId |-> apGardenId, plant |-> selectedPlant])
  /\ UNCHANGED <<apOpen, apGardenId, apInstance, apPlants, apLoading, searchTerm, selectedPlant, plantsLoad, plantCreates, plantAdded, addToasts>>
  /\ UNCHANGED besidesAddModal

WithoutAdd(i) == SubSeq(adds, 1, i - 1) \o SubSeq(adds, i + 1, Len(adds))

(* the modal of run i is still mounted *)
Mounted(i) == apOpen /\ adds[i].instance = apInstance

(* catch and finally of addPlantToGarden (lines 122-131) *)
AddRejected(i) ==
  /\ addToasts' = [addToasts EXCEPT !.failed = @ + 1]
  /\ addingPlant' = IF Mounted(i) THEN FALSE ELSE addingPlant
  /\ adds' = WithoutAdd(i)
  /\ UNCHANGED <<apOpen, apGardenId, apInstance, apPlants, apLoading, searchTerm, selectedPlant, plantsLoad, plantAdded>>

(* await blink.auth.me() (line 104) settles; gardenPlants.create is called *)
AddMeSettles(i) ==
  /\ adds[i].pc = "me"
  /\ \/ /\ plantCreates' = Append(plantCreates, [gardenId |-> adds[i].gardenId, plantId |-> adds[i].plant.id, status |-> "planned"])
        /\ adds' = [adds EXCEPT ![i].pc = "create"]
        /\ UNCHANGED <<apOpen, apGardenId, apInstance, apPlants, apLoading, searchTerm, selectedPlant, addingPlant, plantsLoad, plantAdded, addToasts>>
     \/ /\ AddRejected(i)
        /\ UNCHANGED plantCreates
  /\ UNCHANGED besidesAddModal

(* await blink.db.gardenPlants.create (lines 105-121) settles; when it     *)
(* resolves: the toast, onPlantAdded() and onOpenChange(false), both of    *)
(* which set the page's selected garden to null, the setters and finally   *)
AddCreateSettles(i) ==
  /\ adds[i].pc = "create"
  /\ \/ /\ addToasts' = [addToasts EXCEPT !.added = @ + 1]
        /\ plantAdded' = plantAdded + 1
        /\ Unmounted
        /\ adds' = WithoutAdd(i)
     \/ AddRejected(i)
  /\ UNCHANGED plantCreates
  /\ UNCHANGED besidesAddModal

InitAddModal ==
  /\ AddModalUnmounted
  /\ CalendarUnmounted
  /\ PageUnmounted
  /\ SettingsUnmounted
  /\ DashboardUnmounted
  /\ CreateModalUnmounted

NextAddModal ==
  \/ \E garden \in {"g1", "g2"} : MountAddPlantModal(garden)
  \/ OnOpenChangeFalse
  \/ PlantsListSettlesInModal
  \/ \E term \in SearchTerms : OnChangeSearch(term)
  \/ \E k \in 1..Len(filteredPlants) : OnClickCard(filteredPlants[k])
  \/ addPlantToGarden
  \/ \E i \in 1..Len(adds) : AddMeSettles(i) \/ AddCreateSettles(i)

SpecAddModal == InitAddModal /\ [][NextAddModal]_vars

(* the runs of addPlantToGarden of the mounted modal that are in flight *)
RunsOfMounted == {i \in 1..Len(adds) : Mounted(i)}

(* this step starts a run of addPlantToGarden *)
StartsAdd == Len(adds') > Len(adds)

(* this step calls gardenPlants.create *)
IssuesCreate == Len(plantCreates') > Len(plantCreates)

(* this step shows the failure toast *)
FailsAdd == addToasts'.failed > addToasts.failed

(* the plants of the library *)
CardPlants == {PlantLibrary[k] : k \in 1..Len(PlantLibrary)}

(* C29: adding a plant requires a selection and is single-flight.  A run   *)
(* of addPlantToGarden starts only with a plant selected and addingPlant   *)
(* false, and keeps the modal's gardenId and the selected plant; every     *)
(* gardenPlants.create is issued by such a run, with its gardenId, its     *)
(* plant's id and status 'planned'; the selection is null or one loaded    *)
(* plant, and a click on the card of the selected plant sets it to null;   *)
(* the mounted modal has at most one run in flight, exactly while          *)
(* addingPlant is true; the step that shows the failure toast leaves the   *)
(* selection, the open state and the count of onPlantAdded calls alone.    *)
C29_AddNeedsSelectionSingleFlight ==
  /\ [](/\ selectedPlant = NoPlant \/ selectedPlant \in CardPlants
        /\ Cardinality(RunsOfMounted) <= 1
        /\ apOpen => (addingPlant <=> RunsOfMounted # {})
        /\ \A i \in 1..Len(adds) : adds[i].plant \in CardPlants
        /\ \A i \in RunsOfMounted : adds[i].gardenId = apGardenId
        /\ \A k \in 1..Len(plantCreates) : plantCreates[k].status = "planned")
  /\ [][/\ StartsAdd =>
             /\ selectedPlant # NoPlant
             /\ ~addingPlant
             /\ adds' = Append(adds, [pc |-> "me", instance |-> apInstance, gardenId |-> apGardenId, plant |-> selectedPlant])
        /\ IssuesCreate =>
             \E i \in 1..Len(adds) :
               /\ adds[i].pc = "me"
               /\ plantCreates' = Append(plantCreates, [gardenId |-> adds[i].gardenId, plantId |-> adds[i].plant.id, status |-> "planned"])
        /\ \A k \in 1..Len(filteredPlants) :
             (OnClickCard(filteredPlants[k]) /\ filteredPlants[k].id = selectedPlant.id) => selectedPlant' = NoPlant
        /\ FailsAdd => UNCHANGED <<selectedPlant, apOpen, plantAdded>>]_vars

(* one add failed at create with the modal left open and the plant still   *)
(* selected, and the next add of the same modal succeeded                   *)
C29_Witness ==
  /\ addToasts = [added |-> 1, failed |-> 1]
  /\ plantAdded = 1
  /\ Len(plantCreates) = 2
  /\ apInstance = 1
  /\ plantCreates[1] = plantCreates[2]

====
